---- MODULE Spec2Model ----
(***************************************************************************)
(* Blackijecky: the blackjack server of server.py (acceptor, capacity      *)
(* semaphore, per-connection session handler, round state machine) with    *)
(* the deck and hand of cards.py and the wire codec of protocol.py.        *)
(*                                                                         *)
(* A connection c is a TCP connection of one peer.  The peer is any        *)
(* program: it writes byte chunks to the connection and may close it.      *)
(* Bytes are integers 0..255, byte strings are sequences of bytes, and a   *)
(* Python str is the sequence of its code points.                          *)
(***************************************************************************)
EXTENDS Integers, Sequences, FiniteSets, TLC

(***************************************************************************)
(* Bounds of the exploration.                                              *)
(***************************************************************************)
\* connections that are ever opened to the server
MaxConns == 2
\* largest num_rounds a peer asks for in a Request
MaxRounds == 2
\* random.shuffle is explored over the orders that put the first ShuffleTop
\* cards of TopOrder (in any order) on top of the deck
ShuffleTop == 7

Conns == 1..MaxConns

(***************************************************************************)
(* protocol.py: constants                                                  *)
(***************************************************************************)
\* 0xABCDCDBA as struct's "!I" lays it out: four bytes, big-endian
MAGIC_COOKIE == <<171, 205, 205, 186>>
TYPE_OFFER == 2
TYPE_REQUEST == 3
TYPE_PAYLOAD == 4
RESULT_NOT_OVER == 0
RESULT_TIE == 1
RESULT_LOSS == 2
RESULT_WIN == 3

\* the value a raised ValueError is modelled by
ValueError == <<"ValueError">>

Take(s, n) == SubSeq(s, 1, n)
Drop(s, n) == SubSeq(s, n + 1, Len(s))

RECURSIVE Zeros(_)
Zeros(n) == IF n <= 0 THEN <<>> ELSE <<0>> \o Zeros(n - 1)

RECURSIVE DecodeIgnore(_)
\* bytes.decode("ascii", errors="ignore"): bytes above 127 are dropped
DecodeIgnore(b) ==
    IF b = <<>> THEN <<>>
    ELSE IF Head(b) <= 127 THEN <<Head(b)>> \o DecodeIgnore(Tail(b))
    ELSE DecodeIgnore(Tail(b))

RECURSIVE CutAtNul(_)
\* b.split(b"\x00", 1)[0]
CutAtNul(b) ==
    IF b = <<>> \/ Head(b) = 0 THEN <<>>
    ELSE <<Head(b)>> \o CutAtNul(Tail(b))

\* the strings of the decision field (ASCII code points)
Hittt == <<72, 105, 116, 116, 116>>
Stand == <<83, 116, 97, 110, 100>>

\* names are modelled over ASCII text, where UTF-8 encoding is the identity
pack_name_32(name) ==
    LET b == Take(name, IF Len(name) < 32 THEN Len(name) ELSE 32)
    IN  b \o Zeros(32 - Len(b))

unpack_name_32(b) ==
    DecodeIgnore(CutAtNul(Take(b, IF Len(b) < 32 THEN Len(b) ELSE 32)))

\* the value a raised struct.error is modelled by
StructError == <<"struct.error">>

\* mutant: the port is laid out low byte first
pack_offer_le(tcp_port, server_name) ==
    IF ~(0 <= tcp_port /\ tcp_port <= 65535) THEN StructError
    ELSE MAGIC_COOKIE \o <<TYPE_OFFER, tcp_port % 256, tcp_port \div 256>>
             \o pack_name_32(server_name)
\* struct's "H" refuses a port outside 0..65535
pack_offer(tcp_port, server_name) ==
    IF ~(0 <= tcp_port /\ tcp_port <= 65535) THEN StructError
    ELSE MAGIC_COOKIE \o <<TYPE_OFFER, tcp_port \div 256, tcp_port % 256>>
             \o pack_name_32(server_name)

\* mutant: the type tag is not looked at
unpack_offer_anytype(data) ==
    IF Len(data) < 39 THEN ValueError
    ELSE IF Take(data, 4) # MAGIC_COOKIE THEN ValueError
    ELSE <<data[6] * 256 + data[7], unpack_name_32(SubSeq(data, 8, 39))>>
\* <<tcp_port, server_name>> or ValueError
unpack_offer(data) ==
    IF Len(data) < 39 THEN ValueError
    ELSE IF Take(data, 4) # MAGIC_COOKIE \/ data[5] # TYPE_OFFER THEN ValueError
    ELSE <<data[6] * 256 + data[7], unpack_name_32(SubSeq(data, 8, 39))>>

pack_request(num_rounds, team_name) ==
    IF ~(1 <= num_rounds /\ num_rounds <= 255) THEN ValueError
    ELSE MAGIC_COOKIE \o <<TYPE_REQUEST, num_rounds>> \o pack_name_32(team_name)

\* mutant: the cookie and the type tag are not looked at
unpack_request_lax(data) ==
    IF Len(data) < 38 THEN ValueError
    ELSE <<data[6], unpack_name_32(SubSeq(data, 7, 38))>>
\* <<num_rounds, team_name>> or ValueError
unpack_request(data) ==
    IF Len(data) < 38 THEN ValueError
    ELSE IF Take(data, 4) # MAGIC_COOKIE \/ data[5] # TYPE_REQUEST THEN ValueError
    ELSE <<data[6], unpack_name_32(SubSeq(data, 7, 38))>>

pack_payload_client(decision) ==
    IF decision \notin {Hittt, Stand} THEN ValueError
    ELSE MAGIC_COOKIE \o <<TYPE_PAYLOAD>> \o decision

\* the decision string or ValueError
unpack_payload_client(data) ==
    IF Len(data) < 10 THEN ValueError
    ELSE IF Take(data, 4) # MAGIC_COOKIE \/ data[5] # TYPE_PAYLOAD THEN ValueError
    ELSE DecodeIgnore(SubSeq(data, 6, 10))

pack_payload_server(result, rank, suit) ==
    IF result \notin {RESULT_NOT_OVER, RESULT_TIE, RESULT_LOSS, RESULT_WIN} THEN ValueError
    ELSE IF ~(1 <= rank /\ rank <= 13) THEN ValueError
    ELSE IF ~(0 <= suit /\ suit <= 3) THEN ValueError
    ELSE MAGIC_COOKIE \o <<TYPE_PAYLOAD, result, rank \div 256, rank % 256, suit>>

\* <<result, rank, suit>> or ValueError
unpack_payload_server(data) ==
    IF Len(data) < 9 THEN ValueError
    ELSE IF Take(data, 4) # MAGIC_COOKIE \/ data[5] # TYPE_PAYLOAD THEN ValueError
    ELSE <<data[6], data[7] * 256 + data[8], data[9]>>

(***************************************************************************)
(* cards.py                                                                *)
(***************************************************************************)
RANKS == 1..13

\* mutant: an Ace is worth 1
card_value_low(rank) ==
    IF 2 <= rank /\ rank <= 10 THEN rank
    ELSE IF rank = 1 THEN 1
    ELSE 10
\* card_value
card_value(rank) ==
    IF rank = 1 THEN 11
    ELSE IF 2 <= rank /\ rank <= 10 THEN rank
    ELSE 10

\* Deck.__init__: the 52 cards <<rank, suit>>.  The list is shuffled, so the
\* deck is kept as the set of cards still in it and draw() takes one of them
\* (see DrawChoices).
FullDeck == {<<rank, suit>> : rank \in RANKS, suit \in 0..3}

\* the cards the explored shuffles put on top
TopOrder ==
    << <<10, 0>>, <<7, 1>>, <<2, 2>>, <<1, 0>>, <<13, 3>>, <<1, 1>>,
       <<6, 2>>, <<9, 3>>, <<10, 1>>, <<5, 0>> >>
TopCards == {TopOrder[i] : i \in 1..ShuffleTop}

\* the deck by rising value: the 2s, the 3s, ... the Kings, then the Aces
LowOrder ==
    [i \in 1..52 |->
        IF i <= 48 THEN <<2 + ((i - 1) \div 4), (i - 1) % 4>> ELSE <<1, i - 49>>]

RECURSIVE total(_)
\* Hand.total
total(hand) ==
    IF hand = <<>> THEN 0
    ELSE card_value(Head(hand)[1]) + total(Tail(hand))

\* mutant: a hand of exactly 22 is not yet bust
bust_late(hand) == total(hand) > 22
\* mutant: no hand is ever bust
bust_never(hand) == FALSE
\* Hand.bust
bust(hand) == total(hand) > 21

(***************************************************************************)
(* State                                                                   *)
(***************************************************************************)
VARIABLES
    slots,             \* BlackjackServer.client_slots: the semaphore's free units
    backlog,           \* connections waiting in tcp_sock's listen queue, oldest first
    pc,                \* per connection: where its handling stands
    connOpen,          \* per connection: the server's socket conn is not yet closed
    inbuf,             \* per connection: bytes written by the peer, not yet received
    sent,              \* per connection: payloads sent (sendall) in the round in
                       \* progress or just ended, oldest first
    exc,               \* per connection: the exception that ended _handle_client's try
    num_rounds,        \* _handle_client locals
    r,
    wins,
    losses,
    ties,
    result,
    deck,              \* _play_round locals: deck.cards, player.cards, dealer.cards
    player,
    dealer,
    last_dealer_card,
    offer_pc,          \* where the thread of _offer_loop stands
    client,            \* per connection: client.py's run_session at the other
                       \* end: its position and its locals
    codec,             \* a pack_/unpack_ function of protocol.py under test: the
                       \* value, its encoding, and what is decoded
    deckT,             \* a Deck of cards.py under test: its list, the cards drawn
    handT,             \* a Hand of cards.py under test: its list, total(), bust()
    proc,              \* the server's process: the main thread in start(), the
                       \* _stop event, the two sockets, the acceptor's thread
    listener,          \* client.py's listen_for_offer: its position, the time
                       \* waited, the datagram received, what it returns
    shuffle            \* which shuffles random.shuffle draws from in this run

acceptVars == <<slots, backlog>>
sessionVars == <<num_rounds, r, wins, losses, ties, result>>
roundVars == <<deck, player, dealer, last_dealer_card>>
\* the state outside the acceptor and the Session Handlers
pureVars == <<codec, deckT, handT>>
hostVars == <<proc, listener, shuffle>>
outsideVars == <<offer_pc, client, pureVars, hostVars>>
vars == <<slots, backlog, pc, connOpen, inbuf, sent, exc,
          num_rounds, r, wins, losses, ties, result,
          deck, player, dealer, last_dealer_card, outsideVars>>

\* the shuffles explored with the low cards on top: the cards leave the deck
\* in the order of LowOrder, from its first card or up to LowCuts cards on
\* (and round to the start)
LowCuts == 3
LowDraw(d) ==
    LET n == 52 - Cardinality(d)
    IN  {LowOrder[((k + n) % 52) + 1] : k \in
            {k \in 0..LowCuts :
                FullDeck \ d = {LowOrder[((k + i - 1) % 52) + 1] : i \in 1..n}}}

\* Deck.draw on a non-empty deck: what self.cards.pop() can return under the
\* explored shuffles.  With the picked cards on top, the top cards come
\* first, in any order; once they are gone any card left can follow.
DrawChoices(d) ==
    IF shuffle = "low" THEN LowDraw(d)
    ELSE IF d \cap TopCards # {} THEN d \cap TopCards ELSE d

\* BlackjackServer.__init__'s max_clients: the server is constructed as
\* BlackjackServer(max_clients=1), the configuration of the concurrency scenario
max_clients == 1

\* no card: the value of last_dealer_card outside the dealer's turn
NoCard == <<0, 0>>
\* no result yet returned by _play_round
NoResult == -1

\* client.py before main() has sent its Request
ClientIdle ==
    [pc |-> "start", rounds |-> 0, r |-> 0, wins |-> 0, losses |-> 0, ties |-> 0,
     read |-> 0]

\* pc values of a connection whose Session Handler thread is running
HandlerPcs ==
    {"request", "newline", "round", "player", "dealer", "return", "finally", "release"}
\* pc values at which the handler is blocked in a receive
ReadingPcs == {"request", "newline", "player"}

\* start() has started the two threads and sleeps; nothing is stopped
ProcStarted ==
    [main |-> "sleep", stop |-> FALSE, tcp_sock |-> "open", udp_sock |-> "open",
     acceptor |-> "top", conn |-> 0, late |-> 0]

\* listen_for_offer has not been called
ListenerIdle == [pc |-> "idle", waited |-> 0, total |-> 0, data |-> <<>>, ret |-> <<>>]

\* BlackjackServer(max_clients=n) is constructed and started, no connection
\* has been made, and client.py has sent nothing
ConstructedWith(n, sh) ==
    /\ slots = n
    /\ backlog = <<>>
    /\ pc = [c \in Conns |-> "unborn"]
    /\ connOpen = [c \in Conns |-> FALSE]
    /\ inbuf = [c \in Conns |-> <<>>]
    /\ sent = [c \in Conns |-> <<>>]
    /\ exc = [c \in Conns |-> "none"]
    /\ num_rounds = [c \in Conns |-> 0]
    /\ r = [c \in Conns |-> 0]
    /\ wins = [c \in Conns |-> 0]
    /\ losses = [c \in Conns |-> 0]
    /\ ties = [c \in Conns |-> 0]
    /\ result = [c \in Conns |-> NoResult]
    /\ deck = [c \in Conns |-> {}]
    /\ player = [c \in Conns |-> <<>>]
    /\ dealer = [c \in Conns |-> <<>>]
    /\ last_dealer_card = [c \in Conns |-> NoCard]
    /\ offer_pc = "send"
    /\ client = [c \in Conns |-> ClientIdle]
    /\ proc = ProcStarted
    /\ listener = ListenerIdle
    /\ shuffle = sh

Constructed(n) == ConstructedWith(n, "top")

\* no function of protocol.py or object of cards.py is under test
PureIdle ==
    /\ codec = [kind |-> "none", stage |-> "none", x |-> <<>>, bytes |-> <<>>, y |-> <<>>]
    /\ deckT = [cards |-> <<>>, drawn |-> <<>>, err |-> "none"]
    /\ handT = [cards |-> <<>>, total |-> 0, bust |-> FALSE]

Init == Constructed(max_clients) /\ PureIdle

(***************************************************************************)
(* The peer of a connection: any program.  It connects and writes byte     *)
(* chunks.  The handler sees what the peer does only in its own receives   *)
(* and sends, so a chunk is written while the handler is blocked in a      *)
(* receive that what was written so far cannot serve, and the peer's close *)
(* or silence is taken where the handler meets it (RecvErrors,             *)
(* SendOutcomes).                                                          *)
(***************************************************************************)
TeamName == <<84>>
\* a Request frame as any peer can write it, num_rounds unchecked
RawRequest(cookie, mtype, n) == cookie \o <<mtype, n>> \o pack_name_32(TeamName)
RawDecision(cookie, mtype, text) == cookie \o <<mtype>> \o text
BadCookie == <<171, 205, 205, 187>>
\* "Split": five ASCII bytes that are no decision
Split == <<83, 112, 108, 105, 116>>
\* "\n" and "\r\n"
Newlines == {<<10>>, <<13, 10>>}

RequestFrames ==
    {RawRequest(MAGIC_COOKIE, TYPE_REQUEST, n) : n \in 0..MaxRounds}
        \cup {RawRequest(BadCookie, TYPE_REQUEST, 1),
              RawRequest(MAGIC_COOKIE, TYPE_PAYLOAD, 1)}
DecisionFrames ==
    {pack_payload_client(Hittt), pack_payload_client(Stand),
     RawDecision(MAGIC_COOKIE, TYPE_PAYLOAD, Split),
     RawDecision(BadCookie, TYPE_PAYLOAD, Stand)}

\* the bytes the receive the handler is blocked in asks for
Wanted(at) ==
    CASE at = "request" -> 38
      [] at = "newline" -> 1
      [] at = "player" -> 10
      [] OTHER -> 0

PeerChunks(at) ==
    CASE at = "request" -> RequestFrames
      [] at = "newline" -> Newlines
      [] at = "player" -> DecisionFrames
      [] OTHER -> {}

\* a new connection reaches the listening socket
P_Connect(c) ==
    /\ pc[c] = "unborn"
    /\ \A d \in Conns : d < c => pc[d] # "unborn"
    /\ pc' = [pc EXCEPT ![c] = "queued"]
    /\ backlog' = Append(backlog, c)
    /\ UNCHANGED <<slots, connOpen, inbuf, sent, exc, sessionVars, roundVars>>
    /\ UNCHANGED outsideVars

P_Send(c) ==
    /\ pc[c] \in ReadingPcs
    /\ Len(inbuf[c]) < Wanted(pc[c])
    /\ \E chunk \in PeerChunks(pc[c]) :
           inbuf' = [inbuf EXCEPT ![c] = @ \o chunk]
    /\ UNCHANGED <<acceptVars, pc, connOpen, sent, exc,
                   sessionVars, roundVars>>
    /\ UNCHANGED outsideVars

(***************************************************************************)
(* server.py: _accept_loop                                                 *)
(***************************************************************************)
\* mutant: the acquire never refuses
TryAcquire_always(n) == TRUE
\* the semaphore's acquire(blocking=False): TRUE iff a unit was free
TryAcquire(n) == n > 0

\* one pass of the loop: conn, addr = self.tcp_sock.accept(); then
\* if not self.client_slots.acquire(blocking=False): conn.close(); continue
\* else the thread of _handle_client_wrap(conn, addr) is started
A_Accept ==
    /\ backlog # <<>>
    /\ LET conn == Head(backlog)
       IN  /\ backlog' = Tail(backlog)
           /\ IF TryAcquire(slots)
              THEN /\ slots' = slots - 1
                   /\ pc' = [pc EXCEPT ![conn] = "request"]
                   /\ connOpen' = [connOpen EXCEPT ![conn] = TRUE]
              ELSE /\ UNCHANGED slots
                   /\ pc' = [pc EXCEPT ![conn] = "rejected"]
                   /\ connOpen' = [connOpen EXCEPT ![conn] = FALSE]
    /\ UNCHANGED <<inbuf, sent, exc, sessionVars, roundVars>>
    /\ UNCHANGED outsideVars

(***************************************************************************)
(* server.py: helpers of the Session Handler                               *)
(***************************************************************************)
\* leaving _handle_client's try block with exception e
Raise(c, e) ==
    /\ pc' = [pc EXCEPT ![c] = "finally"]
    /\ exc' = [exc EXCEPT ![c] = e]

\* recv_exact(conn, n) cannot be served from what the peer wrote
RecvFails(c, n) == Len(inbuf[c]) < n
\* ... and then raises: the peer's close is seen as b"", its silence as a timeout
RecvErrors == {"ConnectionError", "socket.timeout"}

\* mutant: every card is sent as NOT_OVER
CardMsg_notover(res, card) == pack_payload_server(RESULT_NOT_OVER, card[1], card[2])
\* _send_card's message for a card
CardMsg(res, card) == pack_payload_server(res, card[1], card[2])

\* _send_card called for msgs in turn: how many went out, and what was raised.
\* sendall fails (OSError) when the peer has closed or reset the connection.
SendOutcomes(c, msgs) ==
    LET bad == {i \in 1..Len(msgs) : msgs[i] = ValueError}
        stop == IF bad = {} THEN Len(msgs) + 1
                ELSE CHOOSE i \in bad : \A j \in bad : i <= j
    IN  {[n |-> Len(msgs), err |-> "none"] : x \in {1} \cap {y \in {1} : bad = {}}}
          \cup {[n |-> stop - 1, err |-> "ValueError"] :
                    x \in {1} \cap {y \in {1} : bad # {}}}
          \cup {[n |-> k, err |-> "OSError"] :
                    k \in {j \in 0..(Len(msgs) - 1) : j < stop}}

\* _play_round returns res: result = self._play_round(conn, team_name)
Return(c, res) ==
    /\ result' = [result EXCEPT ![c] = res]
    /\ pc' = [pc EXCEPT ![c] = "return"]
    /\ UNCHANGED <<exc, num_rounds, r, wins, losses, ties>>

(***************************************************************************)
(* server.py: _handle_client, request phase                                *)
(***************************************************************************)
\* req = recv_exact(conn, 38); unpack_request; the check of num_rounds
H_ReadRequest(c) ==
    /\ pc[c] = "request"
    /\ IF RecvFails(c, 38)
       THEN /\ inbuf' = [inbuf EXCEPT ![c] = <<>>]
            /\ \E e \in RecvErrors : Raise(c, e)
            /\ UNCHANGED num_rounds
       ELSE LET req == unpack_request(Take(inbuf[c], 38))
            IN  /\ inbuf' = [inbuf EXCEPT ![c] = Drop(@, 38)]
                /\ IF req = ValueError
                   THEN Raise(c, "ValueError: Invalid request") /\ UNCHANGED num_rounds
                   ELSE IF ~(1 <= req[1] /\ req[1] <= 255)
                   THEN Raise(c, "ValueError: Invalid rounds") /\ UNCHANGED num_rounds
                   ELSE /\ num_rounds' = [num_rounds EXCEPT ![c] = req[1]]
                        /\ pc' = [pc EXCEPT ![c] = "newline"]
                        /\ UNCHANGED exc
    /\ UNCHANGED <<acceptVars, connOpen, sent,
                   r, wins, losses, ties, result, roundVars>>
    /\ UNCHANGED outsideVars

\* conn.recv(1) under a 0.2 s timeout, every outcome ignored: one byte is
\* taken if one is there.  Then wins = losses = ties = 0 and the loop starts.
H_ReadNewline(c) ==
    /\ pc[c] = "newline"
    /\ inbuf' = [inbuf EXCEPT ![c] = IF @ = <<>> THEN @ ELSE Tail(@)]
    /\ wins' = [wins EXCEPT ![c] = 0]
    /\ losses' = [losses EXCEPT ![c] = 0]
    /\ ties' = [ties EXCEPT ![c] = 0]
    /\ r' = [r EXCEPT ![c] = 1]
    /\ pc' = [pc EXCEPT ![c] = "round"]
    /\ UNCHANGED <<acceptVars, connOpen, sent, exc,
                   num_rounds, result, roundVars>>
    /\ UNCHANGED outsideVars

(***************************************************************************)
(* server.py: _handle_client's loop head and _play_round                   *)
(***************************************************************************)
\* _play_round's locals take these values
Frame(c, d, p, dl, last) ==
    /\ deck' = [deck EXCEPT ![c] = d]
    /\ player' = [player EXCEPT ![c] = p]
    /\ dealer' = [dealer EXCEPT ![c] = dl]
    /\ last_dealer_card' = [last_dealer_card EXCEPT ![c] = last]

\* an exception leaves _play_round: its frame is gone
RaiseInRound(c, e) ==
    /\ Raise(c, e)
    /\ Frame(c, {}, <<>>, <<>>, NoCard)

\* mutant: the loop runs once more
LoopDone_late(i, n) == i > n + 1
\* range(1, num_rounds + 1) is used up when r has passed n
LoopDone(i, n) == i > n

\* mutant: every decoded string passes
ValidDecision_any(d) == TRUE
\* _read_decision's check of the decoded string
ValidDecision(d) == d \in {Hittt, Stand}

\* for r in range(1, num_rounds + 1): the loop ends, or _play_round starts:
\* a new Deck and Hands, four draws, three cards sent
H_Round(c) ==
    /\ pc[c] = "round"
    /\ IF LoopDone(r[c], num_rounds[c])
       THEN /\ pc' = [pc EXCEPT ![c] = "finally"]
            /\ UNCHANGED <<exc, sent, roundVars>>
       ELSE \E p1 \in DrawChoices(FullDeck) :
            \E p2 \in DrawChoices(FullDeck \ {p1}) :
            \E d1 \in DrawChoices(FullDeck \ {p1, p2}) :
            \E d2 \in DrawChoices(FullDeck \ {p1, p2, d1}) :
            LET msgs == <<CardMsg(RESULT_NOT_OVER, p1),
                          CardMsg(RESULT_NOT_OVER, p2),
                          CardMsg(RESULT_NOT_OVER, d1)>>
            IN  \E o \in SendOutcomes(c, msgs) :
                  /\ sent' = [sent EXCEPT ![c] = Take(msgs, o.n)]
                  /\ IF o.err = "none"
                     THEN /\ Frame(c, FullDeck \ {p1, p2, d1, d2},
                                   <<p1, p2>>, <<d1, d2>>, NoCard)
                          /\ pc' = [pc EXCEPT ![c] = "player"]
                          /\ UNCHANGED exc
                     ELSE RaiseInRound(c, o.err)
    /\ UNCHANGED <<acceptVars, connOpen, inbuf, sessionVars>>
    /\ UNCHANGED outsideVars

\* one pass of the player-turn loop: _read_decision, then Stand (the hole
\* card is revealed) or Hit (a card is drawn, added and sent)
H_PlayerTurn(c) ==
    /\ pc[c] = "player"
    /\ IF RecvFails(c, 10)
       THEN /\ inbuf' = [inbuf EXCEPT ![c] = <<>>]
            /\ \E e \in RecvErrors : RaiseInRound(c, e)
            /\ UNCHANGED <<sent, sessionVars>>
       ELSE LET decision == unpack_payload_client(Take(inbuf[c], 10))
            IN  /\ inbuf' = [inbuf EXCEPT ![c] = Drop(@, 10)]
                /\ IF decision = ValueError
                   THEN /\ RaiseInRound(c, "ValueError: Invalid decision payload")
                        /\ UNCHANGED <<sent, sessionVars>>
                   ELSE IF ~ValidDecision(decision)
                   THEN /\ RaiseInRound(c, "ValueError: Invalid decision value")
                        /\ UNCHANGED <<sent, sessionVars>>
                   ELSE IF decision = Stand
                   THEN LET d2 == dealer[c][2]
                            msg == CardMsg(RESULT_NOT_OVER, d2)
                        IN  \E o \in SendOutcomes(c, <<msg>>) :
                              /\ sent' = [sent EXCEPT ![c] = @ \o Take(<<msg>>, o.n)]
                              /\ IF o.err = "none"
                                 THEN /\ Frame(c, deck[c], player[c], dealer[c], d2)
                                      /\ pc' = [pc EXCEPT ![c] = "dealer"]
                                      /\ UNCHANGED exc
                                 ELSE RaiseInRound(c, o.err)
                              /\ UNCHANGED sessionVars
                   ELSE IF deck[c] = {}
                   THEN /\ RaiseInRound(c, "RuntimeError: Deck is empty")
                        /\ UNCHANGED <<sent, sessionVars>>
                   ELSE \E new_card \in DrawChoices(deck[c]) :
                        LET hand == Append(player[c], new_card)
                            res == IF bust(hand) THEN RESULT_LOSS ELSE RESULT_NOT_OVER
                            msg == CardMsg(res, new_card)
                        IN  \E o \in SendOutcomes(c, <<msg>>) :
                              /\ sent' = [sent EXCEPT ![c] = @ \o Take(<<msg>>, o.n)]
                              /\ IF o.err # "none"
                                 THEN RaiseInRound(c, o.err) /\ UNCHANGED sessionVars
                                 ELSE /\ Frame(c, deck[c] \ {new_card}, hand,
                                               dealer[c], last_dealer_card[c])
                                      /\ IF bust(hand)
                                         THEN Return(c, RESULT_LOSS)
                                         ELSE UNCHANGED <<pc, exc, sessionVars>>
    /\ UNCHANGED <<acceptVars, connOpen>>
    /\ UNCHANGED outsideVars

\* mutant: equal totals go to the player
Compare_notie(p_total, d_total) ==
    IF p_total >= d_total THEN RESULT_WIN ELSE RESULT_LOSS
\* the result of comparing the totals
Compare(p_total, d_total) ==
    IF p_total > d_total THEN RESULT_WIN
    ELSE IF d_total > p_total THEN RESULT_LOSS
    ELSE RESULT_TIE

\* mutant: the dealer draws on 17
DealerStands_above17(t) == ~(t <= 17)
\* the dealer stops drawing at this total
DealerStands(t) == ~(t < 17)

\* one pass of "while dealer.total() < 17", or, the loop over, the comparison
\* of the totals with the last dealer card sent again
H_DealerTurn(c) ==
    /\ pc[c] = "dealer"
    /\ IF ~DealerStands(total(dealer[c]))
       THEN IF deck[c] = {}
            THEN /\ RaiseInRound(c, "RuntimeError: Deck is empty")
                 /\ UNCHANGED <<sent, sessionVars>>
            ELSE \E card \in DrawChoices(deck[c]) :
                 LET hand == Append(dealer[c], card)
                     res == IF bust(hand) THEN RESULT_WIN ELSE RESULT_NOT_OVER
                     msg == CardMsg(res, card)
                 IN  \E o \in SendOutcomes(c, <<msg>>) :
                       /\ sent' = [sent EXCEPT ![c] = @ \o Take(<<msg>>, o.n)]
                       /\ IF o.err # "none"
                          THEN RaiseInRound(c, o.err) /\ UNCHANGED sessionVars
                          ELSE /\ Frame(c, deck[c] \ {card}, player[c], hand, card)
                               /\ IF bust(hand)
                                  THEN Return(c, RESULT_WIN)
                                  ELSE UNCHANGED <<pc, exc, sessionVars>>
       ELSE LET final == Compare(total(player[c]), total(dealer[c]))
                msg == CardMsg(final, last_dealer_card[c])
            IN  \E o \in SendOutcomes(c, <<msg>>) :
                  /\ sent' = [sent EXCEPT ![c] = @ \o Take(<<msg>>, o.n)]
                  /\ IF o.err # "none"
                     THEN RaiseInRound(c, o.err) /\ UNCHANGED sessionVars
                     ELSE UNCHANGED roundVars /\ Return(c, final)
    /\ UNCHANGED <<acceptVars, connOpen, inbuf>>
    /\ UNCHANGED outsideVars

\* mutant: the round is not counted, and the loop plays it again
H_Count_again(c) ==
    /\ pc[c] = "return"
    /\ UNCHANGED <<wins, losses, ties, r>>
    /\ pc' = [pc EXCEPT ![c] = "round"]
    /\ sent' = [sent EXCEPT ![c] = <<>>]
    /\ deck' = [deck EXCEPT ![c] = {}]
    /\ player' = [player EXCEPT ![c] = <<>>]
    /\ dealer' = [dealer EXCEPT ![c] = <<>>]
    /\ last_dealer_card' = [last_dealer_card EXCEPT ![c] = NoCard]
    /\ UNCHANGED <<acceptVars, connOpen, inbuf, exc, num_rounds, result>>
    /\ UNCHANGED outsideVars
\* the rest of the loop body: the result is counted.  _play_round's frame
\* (deck, hands) is gone and the round's payloads are history.
H_Count(c) ==
    /\ pc[c] = "return"
    /\ wins' = [wins EXCEPT ![c] = IF result[c] = RESULT_WIN THEN @ + 1 ELSE @]
    /\ losses' = [losses EXCEPT ![c] =
                     IF result[c] # RESULT_WIN /\ result[c] = RESULT_LOSS
                     THEN @ + 1 ELSE @]
    /\ ties' = [ties EXCEPT ![c] =
                     IF result[c] # RESULT_WIN /\ result[c] # RESULT_LOSS
                     THEN @ + 1 ELSE @]
    /\ r' = [r EXCEPT ![c] = @ + 1]
    /\ pc' = [pc EXCEPT ![c] = "round"]
    /\ sent' = [sent EXCEPT ![c] = <<>>]
    /\ deck' = [deck EXCEPT ![c] = {}]
    /\ player' = [player EXCEPT ![c] = <<>>]
    /\ dealer' = [dealer EXCEPT ![c] = <<>>]
    /\ last_dealer_card' = [last_dealer_card EXCEPT ![c] = NoCard]
    /\ UNCHANGED <<acceptVars, connOpen, inbuf, exc, num_rounds, result>>
    /\ UNCHANGED outsideVars

(***************************************************************************)
(* server.py: the finally blocks of _handle_client and _handle_client_wrap *)
(***************************************************************************)
\* mutant: closing one connection closes them all
H_Close_all(c) ==
    /\ pc[c] = "finally"
    /\ connOpen' = [d \in Conns |-> FALSE]
    /\ inbuf' = [inbuf EXCEPT ![c] = <<>>]
    /\ sent' = [sent EXCEPT ![c] = <<>>]
    /\ deck' = [deck EXCEPT ![c] = {}]
    /\ player' = [player EXCEPT ![c] = <<>>]
    /\ dealer' = [dealer EXCEPT ![c] = <<>>]
    /\ last_dealer_card' = [last_dealer_card EXCEPT ![c] = NoCard]
    /\ pc' = [pc EXCEPT ![c] = "release"]
    /\ UNCHANGED <<acceptVars, exc, sessionVars>>
    /\ UNCHANGED outsideVars
\* conn.close(): the connection is over for both ends, what the peer wrote
\* and was not received is dropped, and _play_round's frame is gone
H_Close(c) ==
    /\ pc[c] = "finally"
    /\ connOpen' = [connOpen EXCEPT ![c] = FALSE]
    /\ inbuf' = [inbuf EXCEPT ![c] = <<>>]
    /\ sent' = [sent EXCEPT ![c] = <<>>]
    /\ deck' = [deck EXCEPT ![c] = {}]
    /\ player' = [player EXCEPT ![c] = <<>>]
    /\ dealer' = [dealer EXCEPT ![c] = <<>>]
    /\ last_dealer_card' = [last_dealer_card EXCEPT ![c] = NoCard]
    /\ pc' = [pc EXCEPT ![c] = "release"]
    /\ UNCHANGED <<acceptVars, exc, sessionVars>>
    /\ UNCHANGED outsideVars

\* mutant: the unit is not given back
Released_lost(n) == n
\* the semaphore's release()
Released(n) == n + 1

\* self.client_slots.release(), and the handler's thread ends
H_Release(c) ==
    /\ pc[c] = "release"
    /\ slots' = Released(slots)
    /\ pc' = [pc EXCEPT ![c] = "done"]
    /\ exc' = [exc EXCEPT ![c] = "none"]
    /\ num_rounds' = [num_rounds EXCEPT ![c] = 0]
    /\ r' = [r EXCEPT ![c] = 0]
    /\ wins' = [wins EXCEPT ![c] = 0]
    /\ losses' = [losses EXCEPT ![c] = 0]
    /\ ties' = [ties EXCEPT ![c] = 0]
    /\ result' = [result EXCEPT ![c] = NoResult]
    /\ UNCHANGED <<backlog, connOpen, inbuf, sent, roundVars>>
    /\ UNCHANGED outsideVars

Next ==
    \/ \E c \in Conns : P_Connect(c)
    \/ \E c \in Conns : P_Send(c)
    \/ A_Accept
    \/ \E c \in Conns : H_ReadRequest(c)
    \/ \E c \in Conns : H_ReadNewline(c)
    \/ \E c \in Conns : H_Round(c)
    \/ \E c \in Conns : H_PlayerTurn(c)
    \/ \E c \in Conns : H_DealerTurn(c)
    \/ \E c \in Conns : H_Count(c)
    \/ \E c \in Conns : H_Close(c)
    \/ \E c \in Conns : H_Release(c)

Spec == Init /\ [][Next]_vars

\* the shuffles explored where fairness is assumed: the cards leave the deck
\* in the order of TopOrder, from its first card or up to FairCuts cards on
FairCuts == 4
FairShuffle(c) ==
    LET drawn == FullDeck \ deck[c]
        n == Cardinality(drawn)
    IN  deck[c] # {} =>
            \E k \in 0..FairCuts :
               /\ n <= Len(TopOrder) - k
               /\ drawn = {TopOrder[k + i] : i \in 1..n}
               /\ player[c][1] = TopOrder[k + 1] /\ player[c][2] = TopOrder[k + 2]
               /\ dealer[c][1] = TopOrder[k + 3] /\ dealer[c][2] = TopOrder[k + 4]

FairExplored == \A c \in Conns : FairShuffle(c)

\* a step of the thread of connection c's Session Handler
Handler(c) ==
    \/ H_ReadRequest(c)
    \/ H_ReadNewline(c)
    \/ H_Round(c) /\ FairExplored'
    \/ H_PlayerTurn(c) /\ FairExplored'
    \/ H_DealerTurn(c) /\ FairExplored'
    \/ H_Count(c)
    \/ H_Close(c)
    \/ H_Release(c)

NextFair ==
    \/ \E c \in Conns : P_Connect(c)
    \/ \E c \in Conns : P_Send(c)
    \/ A_Accept
    \/ \E c \in Conns : Handler(c)

\* The thread of a Session Handler is scheduled: when it can take a step it
\* takes one in the end.  Each of its receives is such a step whatever the
\* peer does, since conn.settimeout bounds the wait: it returns the bytes, or
\* b"" after the peer's close, or raises socket.timeout.
HandlerFair(c) == WF_vars(Handler(c))

SpecFair == Init /\ [][NextFair]_vars /\ \A c \in Conns : HandlerFair(c)

(***************************************************************************)
(* The rounds that draw the most cards: the shuffle leaves the low cards   *)
(* on top, so that the hands grow as long as they can.                     *)
(***************************************************************************)
InitLow == ConstructedWith(max_clients, "low") /\ PureIdle

SpecLow == InitLow /\ [][Next]_vars

(***************************************************************************)
(* The whole server at capacity 2: BlackjackServer(max_clients=2) with its *)
(* three kinds of thread, the broadcaster of _offer_loop, the acceptor and *)
(* two Session Handlers side by side.  Two sessions multiply, so each is   *)
(* explored under one shuffle and for Requests of one round.  stop() is    *)
(* not called here.                                                        *)
(***************************************************************************)
\* the capacity the server is constructed with
PairCapacity == 2
\* the Requests explored ask for at most this many rounds
PairRounds == 1

\* _offer_loop, one pass of "for target in targets": sendto, whose failure
\* (the socket is closed) is swallowed.  proc.late counts the passes that
\* sent an offer after _stop was set.
O_Send ==
    /\ offer_pc = "send"
    /\ offer_pc' = "sleep"
    /\ proc' = [proc EXCEPT !.late =
                   IF proc.stop /\ proc.udp_sock = "open" THEN @ + 1 ELSE @]
    /\ UNCHANGED <<client, pureVars, listener, shuffle, slots, backlog, pc,
                   connOpen, inbuf, sent, exc, sessionVars, roundVars>>

\* time.sleep(1), and the loop's test: while not self._stop.is_set()
O_Sleep ==
    /\ offer_pc = "sleep"
    /\ offer_pc' = IF proc.stop THEN "ended" ELSE "send"
    /\ UNCHANGED <<client, pureVars, hostVars, slots, backlog, pc, connOpen, inbuf, sent, exc,
                   sessionVars, roundVars>>

InitPair == Constructed(PairCapacity) /\ PureIdle

\* the shuffle explored: the cards leave the deck in the order of TopOrder
PairShuffle(c) ==
    LET drawn == FullDeck \ deck[c]
    IN  deck[c] # {} =>
            /\ Cardinality(drawn) <= Len(TopOrder)
            /\ drawn = {TopOrder[i] : i \in 1..Cardinality(drawn)}
            /\ player[c][1] = TopOrder[1] /\ player[c][2] = TopOrder[2]
            /\ dealer[c][1] = TopOrder[3] /\ dealer[c][2] = TopOrder[4]

\* what is explored of the sessions
PairExplored == \A c \in Conns : num_rounds[c] <= PairRounds /\ PairShuffle(c)

NextPair ==
    \/ O_Send
    \/ O_Sleep
    \/ \E c \in Conns : P_Connect(c)
    \/ \E c \in Conns : P_Send(c)
    \/ A_Accept
    \/ \E c \in Conns : H_ReadRequest(c) /\ PairExplored'
    \/ \E c \in Conns : H_ReadNewline(c)
    \/ \E c \in Conns : H_Round(c) /\ PairExplored'
    \/ \E c \in Conns : H_PlayerTurn(c) /\ PairExplored'
    \/ \E c \in Conns : H_DealerTurn(c) /\ PairExplored'
    \/ \E c \in Conns : H_Count(c)
    \/ \E c \in Conns : H_Close(c)
    \/ \E c \in Conns : H_Release(c)

SpecPair == InitPair /\ [][NextPair]_vars

(***************************************************************************)
(* client.py: main's Request and run_session, at the other end of a        *)
(* connection, with the server at capacity 1.  The connection is reliable: *)
(* no receive fails or times out and no send fails, at either end.  The    *)
(* user's input is any sequence of "hit" and "stand".                      *)
(*                                                                         *)
(* The client receives the payloads of sent[c], the round the server is    *)
(* in, client[c].read of them so far; the server counts a round once the   *)
(* client has taken all its payloads.                                      *)
(***************************************************************************)
\* the connections whose peer is client.py
MirrorConns == {1}

\* the user's rounds (validated by main: 1..255)
ClientRounds == 1..MaxRounds

\* mutant: the client does not look at the result of a card it drew
HitEndsRound_never(res) == FALSE
\* run_session, after a hit: if res == RESULT_LOSS
HitEndsRound(res) == res = RESULT_LOSS

\* run_session, dealer loop: if res == RESULT_NOT_OVER: continue
DealerGoesOn(res) == res = RESULT_NOT_OVER

\* main: rounds is read, conn.connect has returned,
\* safe_send(conn, pack_request(rounds, team) + b"\n"); run_session starts
Cl_SendRequest(c) ==
    /\ client[c].pc = "start"
    /\ pc[c] \notin {"unborn", "rejected"}
    /\ \E n \in ClientRounds :
         /\ inbuf' = [inbuf EXCEPT ![c] = @ \o pack_request(n, TeamName) \o <<10>>]
         /\ client' = [client EXCEPT ![c] =
                          [@ EXCEPT !.pc = "deal", !.rounds = n, !.r = 1]]
    /\ UNCHANGED <<acceptVars, pc, connOpen, sent, exc, sessionVars, roundVars,
                   offer_pc, pureVars, hostVars>>

\* the round of run_session is over: the next one starts, or the loop ends
ClientNextRound(cl) ==
    [cl EXCEPT !.r = @ + 1, !.read = 0,
               !.pc = IF cl.r + 1 > cl.rounds THEN "finished" ELSE "deal"]

\* recv_server_payload(conn) returns the next payload, and what run_session
\* does with it where it stands
Cl_Recv(c) ==
    /\ client[c].pc \in {"deal", "hit", "reveal", "dealer"}
    /\ pc[c] \in {"player", "dealer", "return"}
    /\ r[c] = client[c].r
    /\ client[c].read < Len(sent[c])
    /\ LET cl == [client[c] EXCEPT !.read = @ + 1]
           payload == unpack_payload_server(sent[c][cl.read])
           res == payload[1]
       IN  client' = [client EXCEPT ![c] =
               CASE cl.pc = "deal" ->
                        IF cl.read = 3 THEN [cl EXCEPT !.pc = "prompt"] ELSE cl
                 [] cl.pc = "hit" ->
                        IF HitEndsRound(res)
                        THEN ClientNextRound([cl EXCEPT !.losses = @ + 1])
                        ELSE [cl EXCEPT !.pc = "prompt"]
                 [] cl.pc = "reveal" -> [cl EXCEPT !.pc = "dealer"]
                 [] cl.pc = "dealer" ->
                        IF DealerGoesOn(res) THEN cl
                        ELSE IF res = RESULT_WIN
                        THEN ClientNextRound([cl EXCEPT !.wins = @ + 1])
                        ELSE IF res = RESULT_LOSS
                        THEN ClientNextRound([cl EXCEPT !.losses = @ + 1])
                        ELSE ClientNextRound([cl EXCEPT !.ties = @ + 1])]
    /\ UNCHANGED <<acceptVars, pc, connOpen, inbuf, sent, exc, sessionVars,
                   roundVars, offer_pc, pureVars, hostVars>>

\* input("Hit or Stand? ") and the decision it sends
Cl_Decide(c) ==
    /\ client[c].pc = "prompt"
    /\ \E choice \in {"hit", "stand"} :
         /\ inbuf' = [inbuf EXCEPT ![c] =
                         @ \o pack_payload_client(IF choice = "hit" THEN Hittt ELSE Stand)]
         /\ client' = [client EXCEPT ![c].pc = IF choice = "hit" THEN "hit" ELSE "reveal"]
    /\ UNCHANGED <<acceptVars, pc, connOpen, sent, exc, sessionVars, roundVars,
                   offer_pc, pureVars, hostVars>>

\* nothing has been raised in a handler
Reliable == \A c \in Conns : exc[c] = "none"

\* the client has taken every payload of the round the server has returned from
RoundTaken(c) == client[c].r > r[c]

NextMirror ==
    \/ \E c \in MirrorConns : P_Connect(c)
    \/ \E c \in MirrorConns : Cl_SendRequest(c)
    \/ \E c \in MirrorConns : Cl_Recv(c)
    \/ \E c \in MirrorConns : Cl_Decide(c)
    \/ A_Accept
    \/ \E c \in MirrorConns : H_ReadRequest(c) /\ Reliable'
    \/ \E c \in MirrorConns : H_ReadNewline(c)
    \/ \E c \in MirrorConns : H_Round(c) /\ Reliable'
    \/ \E c \in MirrorConns : H_PlayerTurn(c) /\ Reliable'
    \/ \E c \in MirrorConns : H_DealerTurn(c) /\ Reliable'
    \/ \E c \in MirrorConns : RoundTaken(c) /\ H_Count(c)
    \/ \E c \in MirrorConns : H_Close(c)
    \/ \E c \in MirrorConns : H_Release(c)

SpecMirror == Init /\ [][NextMirror]_vars

(***************************************************************************)
(* protocol.py under test: a value of a message type is encoded and the    *)
(* bytes decoded again, or a buffer is decoded.                            *)
(***************************************************************************)
\* names of the samples have at most this many characters before the fill
MaxName == 2

CodecKinds == {"offer", "request", "payload_client", "payload_server"}

\* the pack_ function of a message type, applied to a value of it
Encode(kind, x) ==
    CASE kind = "offer" -> pack_offer(x[1], x[2])
      [] kind = "request" -> pack_request(x[1], x[2])
      [] kind = "payload_client" -> pack_payload_client(x)
      [] kind = "payload_server" -> pack_payload_server(x[1], x[2], x[3])

\* the unpack_ function of a message type
Decode(kind, b) ==
    CASE kind = "offer" -> unpack_offer(b)
      [] kind = "request" -> unpack_request(b)
      [] kind = "payload_client" -> unpack_payload_client(b)
      [] kind = "payload_server" -> unpack_payload_server(b)

\* the fixed size of a message type
FrameSize(kind) ==
    CASE kind = "offer" -> 39
      [] kind = "request" -> 38
      [] kind = "payload_client" -> 10
      [] kind = "payload_server" -> 9

\* the type tag of a message type
TypeTag(kind) ==
    CASE kind = "offer" -> TYPE_OFFER
      [] kind = "request" -> TYPE_REQUEST
      [] kind = "payload_client" -> TYPE_PAYLOAD
      [] kind = "payload_server" -> TYPE_PAYLOAD

RECURSIVE Fill(_, _)
\* n times the byte b
Fill(b, n) == IF n <= 0 THEN <<>> ELSE <<b>> \o Fill(b, n - 1)

\* names (ASCII text) of at most 32 bytes: "A", "z" and NUL in any order up
\* to MaxName characters, as they are and filled up with "B" to 32 bytes
ShortNames ==
    UNION {[1..n -> {65, 122, 0}] : n \in 0..MaxName}
NameSamples ==
    ShortNames \cup {s \o Fill(66, 32 - Len(s)) : s \in ShortNames}

PortSamples == {0, 1, 255, 256, 13122, 65535}
RoundsSamples == {1, 2, 127, 128, 255}

\* the values of a message type that are encoded
Values(kind) ==
    CASE kind = "offer" -> {<<p, n>> : p \in PortSamples, n \in NameSamples}
      [] kind = "request" -> {<<k, n>> : k \in RoundsSamples, n \in NameSamples}
      [] kind = "payload_client" -> {Hittt, Stand}
      [] kind = "payload_server" ->
             {<<res, rank, suit>> : res \in 0..3, rank \in RANKS, suit \in 0..3}

\* a frame of each message type
BaseFrame(kind) ==
    CASE kind = "offer" -> pack_offer(13122, <<65>>)
      [] kind = "request" -> pack_request(2, <<65>>)
      [] kind = "payload_client" -> pack_payload_client(Stand)
      [] kind = "payload_server" -> pack_payload_server(RESULT_WIN, 13, 3)

\* the buffers that are decoded: the frame cut short at every length, with
\* each byte of the cookie changed, with every other type tag, with a field
\* out of its range, and with bytes after it
Buffers(kind) ==
    LET f == BaseFrame(kind)
    IN  {Take(f, k) : k \in 0..Len(f)}
          \cup {[f EXCEPT ![i] = (@ + 1) % 256] : i \in 1..4}
          \cup {[f EXCEPT ![5] = t] : t \in 0..5}
          \cup {[f EXCEPT ![6] = 255], [f EXCEPT ![6] = 0, ![7] = 255]}
          \cup {f \o <<10>>, f \o f}
          \cup {Take([f EXCEPT ![5] = 0], k) : k \in 0..Len(f)}

CodecInputs ==
    {[kind |-> k, stage |-> "value", x |-> v, bytes |-> <<>>, y |-> <<>>] :
        k \in {"offer"}, v \in Values("offer")}
      \cup {[kind |-> k, stage |-> "value", x |-> v, bytes |-> <<>>, y |-> <<>>] :
        k \in {"request"}, v \in Values("request")}
      \cup {[kind |-> k, stage |-> "value", x |-> v, bytes |-> <<>>, y |-> <<>>] :
        k \in {"payload_client"}, v \in Values("payload_client")}
      \cup {[kind |-> k, stage |-> "value", x |-> v, bytes |-> <<>>, y |-> <<>>] :
        k \in {"payload_server"}, v \in Values("payload_server")}
      \cup UNION {{[kind |-> k, stage |-> "buffer", x |-> <<>>, bytes |-> b, y |-> <<>>] :
                     b \in Buffers(k)} : k \in CodecKinds}

InitCodec ==
    /\ Constructed(max_clients)
    /\ codec \in CodecInputs
    /\ deckT = [cards |-> <<>>, drawn |-> <<>>, err |-> "none"]
    /\ handT = [cards |-> <<>>, total |-> 0, bust |-> FALSE]

\* the value is encoded
T_Encode ==
    /\ codec.stage = "value"
    /\ codec' = [codec EXCEPT !.stage = "encoded", !.bytes = Encode(codec.kind, codec.x)]
    /\ UNCHANGED <<slots, backlog, pc, connOpen, inbuf, sent, exc, sessionVars,
                   roundVars, offer_pc, client, hostVars, deckT, handT>>

\* the bytes are decoded
T_Decode ==
    /\ codec.stage \in {"encoded", "buffer"}
    /\ codec' = [codec EXCEPT
                    !.stage = IF codec.stage = "encoded" THEN "roundtrip" ELSE "decoded",
                    !.y = Decode(codec.kind, codec.bytes)]
    /\ UNCHANGED <<slots, backlog, pc, connOpen, inbuf, sent, exc, sessionVars,
                   roundVars, offer_pc, client, hostVars, deckT, handT>>

NextCodec == T_Encode \/ T_Decode

SpecCodec == InitCodec /\ [][NextCodec]_vars

(***************************************************************************)
(* cards.py under test: a fresh Deck is drawn from until it is empty and   *)
(* once more.  A Hand is built card by card.                               *)
(***************************************************************************)
\* Deck.__init__: [(rank, suit) for suit in range(4) for rank in RANKS]
OrderedDeck == [i \in 1..52 |-> <<((i - 1) % 13) + 1, (i - 1) \div 13>>]

\* random.shuffle(self.cards) leaves any permutation of the list.  The
\* explored ones deal the ordered list out in steps of a (a has no common
\* factor with 52) starting b cards in, b up to MaxCut.
MaxCut == 3
ShuffleSteps == {1, 3, 5, 51}
Shuffles ==
    {[i \in 1..52 |-> OrderedDeck[((a * (i - 1) + b) % 52) + 1]] :
        a \in ShuffleSteps, b \in 0..MaxCut}

\* mutant: the card drawn stays in the list
Pop_keep(cards) == [card |-> cards[Len(cards)], rest |-> cards]
\* self.cards.pop(): the last card of the list, and the list without it
Pop(cards) ==
    [card |-> cards[Len(cards)], rest |-> SubSeq(cards, 1, Len(cards) - 1)]

\* Deck(): a fresh, shuffled deck; nothing drawn yet
InitDeck ==
    /\ Constructed(max_clients)
    /\ codec = [kind |-> "none", stage |-> "none", x |-> <<>>, bytes |-> <<>>, y |-> <<>>]
    /\ deckT \in {[cards |-> s, drawn |-> <<>>, err |-> "none"] : s \in Shuffles}
    /\ handT = [cards |-> <<>>, total |-> 0, bust |-> FALSE]

\* Deck.draw
T_Draw ==
    /\ deckT.err = "none"
    /\ IF deckT.cards = <<>>
       THEN deckT' = [deckT EXCEPT !.err = "RuntimeError: Deck is empty"]
       ELSE deckT' = [deckT EXCEPT !.cards = Pop(deckT.cards).rest,
                                   !.drawn = Append(@, Pop(deckT.cards).card)]
    /\ UNCHANGED <<slots, backlog, pc, connOpen, inbuf, sent, exc, sessionVars,
                   roundVars, offer_pc, client, hostVars, codec, handT>>

NextDeck == T_Draw

SpecDeck == InitDeck /\ [][NextDeck]_vars

\* a hand under test holds at most this many cards
MaxHand == 3

\* the cards added to the hand under test: every rank, and the cards of the
\* documented examples
HandCards ==
    {<<rank, 0>> : rank \in RANKS} \cup {<<13, 3>>, <<10, 1>>, <<6, 2>>}

\* Hand(): no cards
InitHand ==
    /\ Constructed(max_clients)
    /\ codec = [kind |-> "none", stage |-> "none", x |-> <<>>, bytes |-> <<>>, y |-> <<>>]
    /\ deckT = [cards |-> <<>>, drawn |-> <<>>, err |-> "none"]
    /\ handT = [cards |-> <<>>, total |-> 0, bust |-> FALSE]

\* Hand.add(card), and what total() and bust() then return
T_Add ==
    /\ Len(handT.cards) < MaxHand
    /\ \E card \in HandCards :
         LET cards == Append(handT.cards, card)
         IN  handT' = [cards |-> cards, total |-> total(cards), bust |-> bust(cards)]
    /\ UNCHANGED <<slots, backlog, pc, connOpen, inbuf, sent, exc, sessionVars,
                   roundVars, offer_pc, client, hostVars, codec, deckT>>

NextHand == T_Add

SpecHand == InitHand /\ [][NextHand]_vars

(***************************************************************************)
(* server.py: shutdown.  The main thread leaves start() on Ctrl+C; the     *)
(* acceptor's pass is followed step by step (the loop's test, accept, the  *)
(* rest of the pass), since the main thread can run between them.  The     *)
(* three kinds of thread are daemon threads of a script that ends when     *)
(* start() returns.                                                        *)
(***************************************************************************)
\* start: KeyboardInterrupt in time.sleep(1); self._stop.set()
M_Interrupt ==
    /\ proc.main = "sleep"
    /\ proc' = [proc EXCEPT !.main = "stop_set", !.stop = TRUE]
    /\ UNCHANGED <<slots, backlog, pc, connOpen, inbuf, sent, exc, sessionVars,
                   roundVars, offer_pc, client, pureVars, listener, shuffle>>

\* start: self.tcp_sock.close(); the connections still in the listen queue
\* are reset
M_CloseTcp ==
    /\ proc.main = "stop_set"
    /\ proc' = [proc EXCEPT !.main = "tcp_closed", !.tcp_sock = "closed"]
    /\ backlog' = <<>>
    /\ pc' = [c \in Conns |-> IF pc[c] = "queued" /\ proc.conn # c
                              THEN "rejected" ELSE pc[c]]
    /\ UNCHANGED <<slots, connOpen, inbuf, sent, exc, sessionVars,
                   roundVars, offer_pc, client, pureVars, listener, shuffle>>

\* start: self.udp_sock.close(), and start returns
M_CloseUdp ==
    /\ proc.main = "tcp_closed"
    /\ proc' = [proc EXCEPT !.main = "returned", !.udp_sock = "closed"]
    /\ UNCHANGED <<slots, backlog, pc, connOpen, inbuf, sent, exc, sessionVars,
                   roundVars, offer_pc, client, pureVars, listener, shuffle>>

\* the script's last statement has returned: the interpreter exits without
\* waiting for daemon threads, which stop where they are; the process's
\* sockets are closed
M_Exit ==
    /\ proc.main = "returned"
    /\ proc' = [proc EXCEPT !.main = "exited", !.conn = 0,
                            !.acceptor = IF @ = "ended" THEN @ ELSE "killed"]
    /\ offer_pc' = IF offer_pc = "ended" THEN offer_pc ELSE "killed"
    /\ pc' = [c \in Conns |-> IF pc[c] \in HandlerPcs THEN "killed"
                              ELSE IF pc[c] = "queued" THEN "rejected"
                              ELSE pc[c]]
    /\ connOpen' = [c \in Conns |-> FALSE]
    /\ UNCHANGED <<slots, backlog, inbuf, sent, exc, sessionVars,
                   roundVars, client, pureVars, listener, shuffle>>

\* _accept_loop: while not self._stop.is_set()
A_Top ==
    /\ proc.acceptor = "top"
    /\ proc' = [proc EXCEPT !.acceptor = IF proc.stop THEN "ended" ELSE "accept"]
    /\ UNCHANGED <<slots, backlog, pc, connOpen, inbuf, sent, exc, sessionVars,
                   roundVars, offer_pc, client, pureVars, listener, shuffle>>

\* conn, addr = self.tcp_sock.accept() returns the oldest connection waiting;
\* on the closed socket it raises OSError, and the loop breaks
A_Take ==
    /\ proc.acceptor = "accept"
    /\ IF proc.tcp_sock = "closed"
       THEN /\ proc' = [proc EXCEPT !.acceptor = "ended"]
            /\ UNCHANGED backlog
       ELSE /\ backlog # <<>>
            /\ proc' = [proc EXCEPT !.acceptor = "dispatch", !.conn = Head(backlog)]
            /\ backlog' = Tail(backlog)
    /\ UNCHANGED <<slots, pc, connOpen, inbuf, sent, exc, sessionVars,
                   roundVars, offer_pc, client, pureVars, listener, shuffle>>

\* the rest of the pass: if not self.client_slots.acquire(blocking=False):
\* conn.close(); continue; else the thread of _handle_client_wrap is started
A_Dispatch ==
    /\ proc.acceptor = "dispatch"
    /\ LET conn == proc.conn
       IN  IF TryAcquire(slots)
           THEN /\ slots' = slots - 1
                /\ pc' = [pc EXCEPT ![conn] = "request"]
                /\ connOpen' = [connOpen EXCEPT ![conn] = TRUE]
           ELSE /\ UNCHANGED slots
                /\ pc' = [pc EXCEPT ![conn] = "rejected"]
                /\ connOpen' = [connOpen EXCEPT ![conn] = FALSE]
    /\ proc' = [proc EXCEPT !.acceptor = "top", !.conn = 0]
    /\ UNCHANGED <<backlog, inbuf, sent, exc, sessionVars,
                   roundVars, offer_pc, client, pureVars, listener, shuffle>>

\* a peer connects while the server listens
P_ConnectOpen(c) == proc.tcp_sock = "open" /\ P_Connect(c)

NextStop ==
    \/ M_Interrupt
    \/ M_CloseTcp
    \/ M_CloseUdp
    \/ M_Exit
    \/ O_Send
    \/ O_Sleep
    \/ A_Top
    \/ A_Take
    \/ A_Dispatch
    \/ \E c \in Conns : P_ConnectOpen(c)
    \/ \E c \in Conns : P_Send(c)
    \/ \E c \in Conns : Handler(c)

SpecStop == Init /\ [][NextStop]_vars

(***************************************************************************)
(* client.py: listen_for_offer.  Time is counted in units of five seconds. *)
(* Any host can send a datagram to the well-known port.                    *)
(***************************************************************************)
\* main: listen_for_offer(timeout_sec=15), in units of five seconds
timeout_sec == 3

\* time is followed this far after the call
MaxListen == 8

\* what recvfrom can deliver: Offers, and datagrams that are none (cut short,
\* with a wrong cookie or type, with bytes after the Offer)
Datagrams == Buffers("offer")

\* what listen_for_offer returns on a timeout
None == <<"None">>

\* listen_for_offer is called: the socket is bound, s.settimeout(timeout_sec),
\* and the first s.recvfrom(2048) starts
L_Listen ==
    /\ listener.pc = "idle"
    /\ listener' = [listener EXCEPT !.pc = "recvfrom"]
    /\ UNCHANGED <<slots, backlog, pc, connOpen, inbuf, sent, exc, sessionVars,
                   roundVars, offer_pc, client, pureVars, proc, shuffle>>

\* a unit of time passes while recvfrom waits
L_Tick ==
    /\ listener.pc = "recvfrom"
    /\ listener.waited < timeout_sec
    /\ listener.total < MaxListen
    /\ listener' = [listener EXCEPT !.waited = @ + 1, !.total = @ + 1]
    /\ UNCHANGED <<slots, backlog, pc, connOpen, inbuf, sent, exc, sessionVars,
                   roundVars, offer_pc, client, pureVars, proc, shuffle>>

\* recvfrom raises socket.timeout: return None (and s.close())
L_Timeout ==
    /\ listener.pc = "recvfrom"
    /\ listener.waited = timeout_sec
    /\ listener' = [listener EXCEPT !.pc = "returned", !.ret = None]
    /\ UNCHANGED <<slots, backlog, pc, connOpen, inbuf, sent, exc, sessionVars,
                   roundVars, offer_pc, client, pureVars, proc, shuffle>>

\* recvfrom returns a datagram before its timeout: unpack_offer, and the
\* Offer is returned, or the exception is swallowed and the loop calls
\* recvfrom again
L_Datagram ==
    /\ listener.pc = "recvfrom"
    /\ listener.waited < timeout_sec
    /\ \E data \in Datagrams :
         LET offer == unpack_offer(data)
         IN  listener' =
                IF offer # ValueError
                THEN [listener EXCEPT !.pc = "returned", !.data = data, !.ret = offer]
                ELSE [listener EXCEPT !.data = data, !.waited = 0]
    /\ UNCHANGED <<slots, backlog, pc, connOpen, inbuf, sent, exc, sessionVars,
                   roundVars, offer_pc, client, pureVars, proc, shuffle>>

NextListen == L_Listen \/ L_Tick \/ L_Timeout \/ L_Datagram

SpecListen == Init /\ [][NextListen]_vars

(***************************************************************************)
(* What the claims speak of                                                *)
(***************************************************************************)
\* the connections whose Session Handler is running
Handlers == {c \in Conns : pc[c] \in HandlerPcs}
\* the connections inside _play_round, or just returned from it
InRound == {c \in Conns : pc[c] \in {"player", "dealer", "return"}}

\* the i-th payload of the round as the peer decodes it: <<result, rank, suit>>
Payload(c, i) == unpack_payload_server(sent[c][i])
CardOf(p) == <<p[2], p[3]>>
\* the cards of a hand, as a set
CardsIn(hand) == {hand[i] : i \in 1..Len(hand)}
\* the Stand decision has been received and the hole card revealed
Stood(c) == last_dealer_card[c] # NoCard
\* the round ended by the comparison of the totals (RESOLVED): only there is
\* a card sent twice, in the last two payloads
Resolved(c) ==
    /\ pc[c] = "return"
    /\ Len(sent[c]) >= 2
    /\ CardOf(Payload(c, Len(sent[c]))) = CardOf(Payload(c, Len(sent[c]) - 1))

(***************************************************************************)
(* C1: at most max_clients Session Handlers run at once; the free units of *)
(* the capacity counter plus the running handlers always make max_clients, *)
(* on every path a handler takes to its end, and the free units never      *)
(* exceed max_clients.                                                     *)
(***************************************************************************)
C1_Capacity ==
    /\ Cardinality(Handlers) <= max_clients
    /\ slots + Cardinality(Handlers) = max_clients
    /\ slots >= 0
    /\ slots <= max_clients

\* one handler has ended and given its unit back, and the unit is held again
\* by a handler that is leaving on an error path
C1_Witness ==
    \E c, d \in Conns :
        /\ pc[c] = "done"
        /\ pc[d] = "release"
        /\ exc[d] # "none"
        /\ slots = 0

(***************************************************************************)
(* C2: with max_clients = 1, a connection the acceptor takes while a       *)
(* session is still running is closed at once: it gets no handler, nothing *)
(* is read from it, the capacity counter is untouched, and it stays        *)
(* closed.  A connection taken when no session is running (the earlier one *)
(* has released its unit) is given a handler and the unit.                 *)
(***************************************************************************)
C2_AcceptStep(c) ==
    (pc[c] = "queued" /\ pc'[c] # "queued") =>
        IF Handlers # {}
        THEN /\ pc'[c] = "rejected"
             /\ ~connOpen'[c]
             /\ slots' = slots
             /\ inbuf'[c] = inbuf[c]
             /\ num_rounds'[c] = num_rounds[c]
             /\ Handlers' = Handlers
        ELSE /\ pc'[c] = "request"
             /\ connOpen'[c]
             /\ slots' = slots - 1
             /\ Handlers' = Handlers \cup {c}

C2_StaysClosed(c) ==
    pc[c] = "rejected" => (pc'[c] = "rejected" /\ ~connOpen'[c])

C2_BusyRejection ==
    [][max_clients = 1 /\ \A c \in Conns : C2_AcceptStep(c) /\ C2_StaysClosed(c)]_vars

\* the second connection has been turned away while the first session is
\* in the middle of a round
C2_Witness ==
    /\ pc[1] = "player"
    /\ pc[2] = "rejected"
    /\ ~connOpen[2]
    /\ slots = 0

(***************************************************************************)
(* C3: in the player's turn, a "Hittt" decision draws one card from the    *)
(* deck into the player's hand, and the very next payload carries exactly  *)
(* that card.  If the hand's total now exceeds 21 the payload's result is  *)
(* LOSS, the round returns LOSS, and the round's payloads are the player's *)
(* cards and the dealer's upcard only: no hole card, no dealer draw.       *)
(* Otherwise the result is NOT_OVER and the server waits for another       *)
(* decision.  (Steps in which the send itself fails are not spoken of.)    *)
(***************************************************************************)
\* the handler is about to receive a "Hittt" decision; the step that takes
\* it off inbuf is the handler's
C3_HitRead(c) ==
    /\ pc[c] = "player"
    /\ Len(inbuf[c]) >= 10
    /\ unpack_payload_client(Take(inbuf[c], 10)) = Hittt

C3_HitStep(c) ==
    (C3_HitRead(c) /\ inbuf'[c] # inbuf[c] /\ exc'[c] = "none") =>
        /\ Len(player'[c]) = Len(player[c]) + 1
        /\ Take(player'[c], Len(player[c])) = player[c]
        /\ LET card == player'[c][Len(player'[c])]
               over == total(player'[c]) > 21
               last == unpack_payload_server(sent'[c][Len(sent'[c])])
           IN  /\ card \in deck[c]
               /\ deck'[c] = deck[c] \ {card}
               /\ dealer'[c] = dealer[c]
               /\ Len(sent'[c]) = Len(sent[c]) + 1
               /\ Take(sent'[c], Len(sent[c])) = sent[c]
               /\ CardOf(last) = card
               /\ last[1] = (IF over THEN RESULT_LOSS ELSE RESULT_NOT_OVER)
               /\ IF over
                  THEN /\ pc'[c] = "return"
                       /\ result'[c] = RESULT_LOSS
                       /\ Len(dealer'[c]) = 2
                       /\ \A i \in 1..Len(sent'[c]) :
                            CardOf(unpack_payload_server(sent'[c][i]))
                                \in CardsIn(player'[c]) \cup {dealer'[c][1]}
                  ELSE /\ pc'[c] = "player"
                       /\ result'[c] = result[c]

C3_HitBust == [][\A c \in Conns : C3_HitStep(c)]_vars

\* scenario B: a hit has taken the player to 23 and the round has returned
\* LOSS with four payloads sent, the last one LOSS
C3_Witness ==
    \E c \in Conns :
        /\ pc[c] = "return"
        /\ result[c] = RESULT_LOSS
        /\ total(player[c]) = 23
        /\ Len(player[c]) = 3
        /\ ~Stood(c)
        /\ Len(sent[c]) = 4
        /\ Payload(c, 4)[1] = RESULT_LOSS

(***************************************************************************)
(* C4: the dealer phase is entered only if the player did not bust:        *)
(* whenever the server has sent the dealer's hole card in a round, the     *)
(* player's hand total is at most 21.                                      *)
(***************************************************************************)
C4_DealerPhaseUnbusted ==
    \A c \in Conns :
        (pc[c] \in {"dealer", "return"} /\ Stood(c)) => total(player[c]) <= 21

(***************************************************************************)
(* C5: a round ends by the comparison of the totals (RESOLVED) only if the *)
(* dealer stood without busting: the dealer's total is then at least 17    *)
(* and at most 21, also when the dealer drew no card after the first two.  *)
(***************************************************************************)
C5_ResolvedDealerStood ==
    \A c \in Conns :
        Resolved(c) => (17 <= total(dealer[c]) /\ total(dealer[c]) <= 21)

(***************************************************************************)
(* C6: when a round is RESOLVED, the final payload's result is WIN iff the *)
(* player's total is above the dealer's, LOSS iff it is below, TIE iff the *)
(* totals are equal; the payload carries the last card dealt to the dealer *)
(* (the hole card when the dealer drew nothing), sent again and not drawn  *)
(* from the deck; and the round returns that result.                       *)
(***************************************************************************)
C6_Resolution ==
    \A c \in Conns :
        Resolved(c) =>
            LET p == total(player[c])
                d == total(dealer[c])
                n == Len(sent[c])
                final == Payload(c, n)
            IN  /\ (final[1] = RESULT_WIN) <=> (p > d)
                /\ (final[1] = RESULT_LOSS) <=> (d > p)
                /\ (final[1] = RESULT_TIE) <=> (p = d)
                /\ result[c] = final[1]
                /\ CardOf(final) = dealer[c][Len(dealer[c])]
                /\ CardOf(final) = last_dealer_card[c]
                /\ Len(dealer[c]) = 2 => CardOf(final) = dealer[c][2]
                \* the card before it is the same card, as it was dealt
                /\ Payload(c, n - 1) = <<RESULT_NOT_OVER, final[2], final[3]>>
                \* one payload per card dealt but for this one, and no card
                \* has left the deck for it
                /\ n = Len(player[c]) + Len(dealer[c]) + 1
                /\ deck[c] = FullDeck \ (CardsIn(player[c]) \cup CardsIn(dealer[c]))
                /\ Cardinality(deck[c]) = 52 - Len(player[c]) - Len(dealer[c])

\* a round resolved as a TIE on the first four cards: the hole card is the
\* card of the final payload
C6_Witness ==
    \E c \in Conns :
        /\ Resolved(c)
        /\ result[c] = RESULT_TIE
        /\ Len(dealer[c]) = 2
        /\ total(player[c]) = 21
        /\ Payload(c, Len(sent[c])) = <<RESULT_TIE, dealer[c][2][1], dealer[c][2][2]>>

(***************************************************************************)
(* C7: the dealer rule.  After the hole card is revealed the dealer draws  *)
(* a card iff the dealer's total is below 17.  Below 17 the loop does not  *)
(* stop: one card leaves the deck for the dealer's hand and is the next    *)
(* payload, with WIN and the round returning WIN if it takes the total     *)
(* over 21, with NOT_OVER and the loop going on otherwise.  At 17 or more  *)
(* no card is drawn and the loop is left.  (Steps in which the send itself *)
(* fails are not spoken of.)                                               *)
(***************************************************************************)
\* the handler of c takes a step of the dealer's turn, and no send fails
C7_DealerMoves(c) ==
    /\ pc[c] = "dealer"
    /\ <<pc[c], sent[c]>>' # <<pc[c], sent[c]>>
    /\ exc'[c] = "none"

C7_DealerStep(c) ==
    C7_DealerMoves(c) =>
        /\ Stood(c)
        /\ player'[c] = player[c]
        /\ Len(sent'[c]) = Len(sent[c]) + 1
        /\ Take(sent'[c], Len(sent[c])) = sent[c]
        /\ IF total(dealer[c]) < 17
           THEN /\ Len(dealer'[c]) = Len(dealer[c]) + 1
                /\ Take(dealer'[c], Len(dealer[c])) = dealer[c]
                /\ LET card == dealer'[c][Len(dealer'[c])]
                       over == total(dealer'[c]) > 21
                       last == unpack_payload_server(sent'[c][Len(sent'[c])])
                   IN  /\ card \in deck[c]
                       /\ deck'[c] = deck[c] \ {card}
                       /\ CardOf(last) = card
                       /\ last[1] = (IF over THEN RESULT_WIN ELSE RESULT_NOT_OVER)
                       /\ IF over
                          THEN pc'[c] = "return" /\ result'[c] = RESULT_WIN
                          ELSE pc'[c] = "dealer" /\ result'[c] = result[c]
           ELSE /\ dealer'[c] = dealer[c]
                /\ deck'[c] = deck[c]
                /\ pc'[c] = "return"

C7_DealerRule == [][\A c \in Conns : C7_DealerStep(c)]_vars

\* the dealer, below 17 after the reveal, drew once without busting, was
\* still below 17, drew again and bust: the round returned WIN
C7_Witness ==
    \E c \in Conns :
        /\ pc[c] = "return"
        /\ result[c] = RESULT_WIN
        /\ Len(dealer[c]) = 4
        /\ total(dealer[c]) > 21
        /\ Payload(c, Len(sent[c])) =
               <<RESULT_WIN, last_dealer_card[c][1], last_dealer_card[c][2]>>
        /\ Payload(c, Len(sent[c]) - 1)[1] = RESULT_NOT_OVER

(***************************************************************************)
(* C8: a round draws player card 1, player card 2, the dealer's upcard and *)
(* the dealer's hole card, and sends exactly the first three, in that      *)
(* order, as NOT_OVER payloads before any decision is read.  The hole card *)
(* is sent only after a "Stand" decision, as the first payload after it    *)
(* and with NOT_OVER, and never in a round where the player busts.         *)
(***************************************************************************)
C8_DealAndHoleCard ==
    \A c \in InRound :
        LET hole == dealer[c][2]
            cardsSent == {CardOf(Payload(c, i)) : i \in 1..Len(sent[c])}
        IN  /\ Len(player[c]) >= 2 /\ Len(dealer[c]) >= 2
            /\ Len(sent[c]) >= 3
            /\ Payload(c, 1) = <<RESULT_NOT_OVER, player[c][1][1], player[c][1][2]>>
            /\ Payload(c, 2) = <<RESULT_NOT_OVER, player[c][2][1], player[c][2][2]>>
            /\ Payload(c, 3) = <<RESULT_NOT_OVER, dealer[c][1][1], dealer[c][1][2]>>
            /\ Cardinality({player[c][1], player[c][2], dealer[c][1], hole}) = 4
            \* before a Stand: only player cards follow the first three
            /\ ~Stood(c) =>
                   /\ hole \notin cardsSent
                   /\ Len(sent[c]) = Len(player[c]) + 1
            \* after it: the hole card follows the payloads of the player's cards
            /\ Stood(c) =>
                   /\ Len(sent[c]) >= Len(player[c]) + 2
                   /\ Payload(c, Len(player[c]) + 2) = <<RESULT_NOT_OVER, hole[1], hole[2]>>
            \* a round where the player busts
            /\ bust(player[c]) => hole \notin cardsSent

(***************************************************************************)
(* C9: a well-framed client payload whose decision string is neither       *)
(* "Hittt" nor "Stand" fails the session with a protocol error: no card is *)
(* drawn or sent for it, the round in progress gets no outcome and nothing *)
(* is counted, no further round is started on the connection, and the      *)
(* handler goes on only to close the connection and then to release its    *)
(* capacity unit, both of which it is able to do.                          *)
(***************************************************************************)
C9_ProtocolError == "ValueError: Invalid decision value"

\* the handler is about to receive a well-framed payload with another string
C9_BadDecisionRead(c) ==
    /\ pc[c] = "player"
    /\ Len(inbuf[c]) >= 10
    /\ Take(inbuf[c], 4) = MAGIC_COOKIE
    /\ inbuf[c][5] = TYPE_PAYLOAD
    /\ SubSeq(inbuf[c], 6, 10) \notin {Hittt, Stand}

C9_BadDecisionStep(c) ==
    (C9_BadDecisionRead(c) /\ inbuf'[c] # inbuf[c]) =>
        /\ exc'[c] = C9_ProtocolError
        /\ pc'[c] = "finally"
        /\ sent'[c] = sent[c]
        /\ Len(player'[c]) <= Len(player[c])
        /\ Len(dealer'[c]) <= Len(dealer[c])
        /\ <<result[c], wins[c], losses[c], ties[c], r[c]>>'
               = <<result[c], wins[c], losses[c], ties[c], r[c]>>
        /\ connOpen'[c]
        /\ slots' = slots

\* what the handler does once the error is raised
C9_AfterError(c) ==
    /\ (pc[c] = "finally" /\ exc[c] = C9_ProtocolError) =>
           /\ pc'[c] \in {"finally", "release"}
           /\ sent'[c] = sent[c] \/ sent'[c] = <<>>
           /\ player'[c] = <<>> /\ dealer'[c] = <<>>
           /\ <<wins[c], losses[c], ties[c], r[c]>>' = <<wins[c], losses[c], ties[c], r[c]>>
           /\ pc'[c] = "release" => (~connOpen'[c] /\ slots' = slots)
    /\ (pc[c] = "release" /\ exc[c] = C9_ProtocolError) =>
           /\ pc'[c] \in {"release", "done"}
           /\ ~connOpen'[c]
           /\ sent'[c] = <<>>
           /\ pc'[c] = "done" => slots' = slots + 1

C9_CanLeave ==
    \A c \in Conns :
        exc[c] = C9_ProtocolError =>
            /\ pc[c] \in {"finally", "release"}
            /\ pc[c] = "finally" => ENABLED H_Close(c)
            /\ pc[c] = "release" => ENABLED H_Release(c)

C9_InvalidDecision ==
    /\ []C9_CanLeave
    /\ [][\A c \in Conns : C9_BadDecisionStep(c) /\ C9_AfterError(c)]_vars

\* "Split" was received in the second round, after a Hit that did not bust:
\* the connection is closed with the error pending and the unit still held
C9_Witness ==
    \E c \in Conns :
        /\ pc[c] = "release"
        /\ exc[c] = C9_ProtocolError
        /\ r[c] = 2
        /\ wins[c] + losses[c] + ties[c] = 1
        /\ ~connOpen[c]
        /\ slots = 0

(***************************************************************************)
(* C10: after a valid Request for N rounds, and with no send or receive    *)
(* failing and no malformed payload, the handler plays exactly N rounds,   *)
(* one after the other, and then closes the connection.  A round deals     *)
(* only at the start of the session or after the round before it returned  *)
(* WIN, LOSS or TIE and was counted, each time from a fresh deck of the 52 *)
(* cards into empty hands; and wins + losses + ties is at every point the  *)
(* number of rounds completed.                                             *)
(***************************************************************************)
C10_Played(c) == wins[c] + losses[c] + ties[c]
C10_Outcomes == {RESULT_WIN, RESULT_LOSS, RESULT_TIE}

C10_Counted ==
    \A c \in Conns :
        /\ pc[c] \in {"round", "player", "dealer", "return"} =>
               /\ 1 <= num_rounds[c] /\ num_rounds[c] <= 255
               /\ r[c] >= 1
               /\ C10_Played(c) = r[c] - 1
               /\ wins[c] >= 0 /\ losses[c] >= 0 /\ ties[c] >= 0
        \* a round in progress, or returned and not yet counted, is one of the N
        /\ pc[c] \in {"player", "dealer", "return"} => r[c] <= num_rounds[c]
        /\ pc[c] = "round" => r[c] <= num_rounds[c] + 1
        /\ pc[c] = "return" => result[c] \in C10_Outcomes
        \* the session ended with nothing raised: all N rounds were played
        /\ (pc[c] \in {"finally", "release"} /\ exc[c] = "none") =>
               /\ r[c] = num_rounds[c] + 1
               /\ C10_Played(c) = num_rounds[c]
        /\ (pc[c] = "release" /\ exc[c] = "none") => ~connOpen[c]

C10_RoundStep(c) ==
    \* the loop is entered for round 1 with nothing counted, or again after a
    \* round returned its outcome, which is counted once
    /\ (pc'[c] = "round" /\ pc[c] # "round") =>
           \/ /\ pc[c] = "newline"
              /\ r'[c] = 1
              /\ wins'[c] = 0 /\ losses'[c] = 0 /\ ties'[c] = 0
           \/ /\ pc[c] = "return"
              /\ result[c] \in C10_Outcomes
              /\ r'[c] = r[c] + 1
              /\ wins'[c] = wins[c] + (IF result[c] = RESULT_WIN THEN 1 ELSE 0)
              /\ losses'[c] = losses[c] + (IF result[c] = RESULT_LOSS THEN 1 ELSE 0)
              /\ ties'[c] = ties[c] + (IF result[c] = RESULT_TIE THEN 1 ELSE 0)
    \* a round deals from the loop head only, into empty hands from a full deck
    /\ (pc'[c] = "player" /\ pc[c] # "player") =>
           /\ pc[c] = "round"
           /\ r[c] <= num_rounds[c]
           /\ player[c] = <<>> /\ dealer[c] = <<>>
           /\ Len(player'[c]) = 2 /\ Len(dealer'[c]) = 2
           /\ Cardinality(deck'[c]) = 48
           /\ deck'[c] \cup CardsIn(player'[c]) \cup CardsIn(dealer'[c]) = FullDeck
           /\ Cardinality(FullDeck) = 52
           /\ <<r[c], wins[c], losses[c], ties[c]>>' = <<r[c], wins[c], losses[c], ties[c]>>
    \* inside a round nothing is counted
    /\ pc[c] \in {"player", "dealer"} =>
           <<r[c], wins[c], losses[c], ties[c]>>' = <<r[c], wins[c], losses[c], ties[c]>>
    \* the loop over with nothing raised, the connection is closed next
    /\ (pc[c] = "round" /\ pc'[c] = "finally" /\ exc'[c] = "none") =>
           r[c] = num_rounds[c] + 1
    /\ (pc[c] = "finally" /\ pc'[c] # "finally") =>
           (pc'[c] = "release" /\ ~connOpen'[c])

C10_RoundsSequential ==
    /\ []C10_Counted
    /\ [][\A c \in Conns : C10_RoundStep(c)]_vars

\* a session of MaxRounds rounds has played them all, with a win and a loss
\* among them, and is about to close the connection
C10_Witness ==
    \E c \in Conns :
        /\ pc[c] = "finally"
        /\ exc[c] = "none"
        /\ connOpen[c]
        /\ num_rounds[c] = MaxRounds
        /\ r[c] = MaxRounds + 1
        /\ wins[c] >= 1
        /\ losses[c] >= 1
        /\ C10_Played(c) = MaxRounds

(***************************************************************************)
(* C11: the handler first reads exactly one 38-byte Request.  If its       *)
(* cookie or its type tag is wrong, or its num_rounds is not in 1..255     *)
(* (that is, 0), the connection is lost: no payload is sent, no round is   *)
(* played, and the handler goes on only to close the connection and to     *)
(* release its capacity unit.  A Request that passes starts no round       *)
(* before it is read whole.                                                *)
(***************************************************************************)
C11_Errors == {"ValueError: Invalid request", "ValueError: Invalid rounds"}

\* the 38 bytes the handler is about to receive are no valid Request
C11_BadRequestRead(c) ==
    /\ pc[c] = "request"
    /\ Len(inbuf[c]) >= 38
    /\ \/ Take(inbuf[c], 4) # MAGIC_COOKIE
       \/ inbuf[c][5] # TYPE_REQUEST
       \/ inbuf[c][6] < 1
       \/ inbuf[c][6] > 255

C11_RequestStep(c) ==
    (pc[c] = "request" /\ pc'[c] # "request") =>
        \* exactly the 38 bytes are taken, or the receive failed
        /\ \/ Len(inbuf[c]) >= 38 /\ inbuf'[c] = Drop(inbuf[c], 38)
           \/ Len(inbuf[c]) < 38 /\ exc'[c] \in RecvErrors
        /\ sent'[c] = <<>>
        /\ IF C11_BadRequestRead(c)
           THEN /\ exc'[c] \in C11_Errors
                /\ (exc'[c] = "ValueError: Invalid rounds") <=>
                       (Take(inbuf[c], 5) = MAGIC_COOKIE \o <<TYPE_REQUEST>>)
                /\ pc'[c] = "finally"
                /\ connOpen'[c]
                /\ slots' = slots
                /\ <<num_rounds[c], r[c], deck[c], player[c], dealer[c]>>'
                       = <<0, 0, {}, <<>>, <<>> >>
           ELSE Len(inbuf[c]) >= 38 =>
                    /\ pc'[c] = "newline"
                    /\ exc'[c] = "none"
                    /\ num_rounds'[c] = inbuf[c][6]

\* after the error: close, then release, and nothing else
C11_AfterError(c) ==
    /\ (pc[c] = "finally" /\ exc[c] \in C11_Errors) =>
           /\ pc'[c] \in {"finally", "release"}
           /\ <<sent[c], r[c], player[c], dealer[c]>>' = << <<>>, 0, <<>>, <<>> >>
           /\ pc'[c] = "release" => (~connOpen'[c] /\ slots' = slots)
    /\ (pc[c] = "release" /\ exc[c] \in C11_Errors) =>
           /\ pc'[c] \in {"release", "done"}
           /\ ~connOpen'[c]
           /\ <<sent[c], r[c], player[c], dealer[c]>>' = << <<>>, 0, <<>>, <<>> >>
           /\ pc'[c] = "done" => slots' = slots + 1

C11_CanLeave ==
    \A c \in Conns :
        exc[c] \in C11_Errors =>
            /\ pc[c] \in {"finally", "release"}
            /\ pc[c] = "finally" => ENABLED H_Close(c)
            /\ pc[c] = "release" => ENABLED H_Release(c)

C11_BadRequest ==
    /\ []C11_CanLeave
    /\ [][\A c \in Conns : C11_RequestStep(c) /\ C11_AfterError(c)]_vars

\* a Request with the right cookie and type and num_rounds = 0 was read:
\* the connection is closed, the unit about to be released
C11_Witness ==
    \E c \in Conns :
        /\ pc[c] = "release"
        /\ exc[c] = "ValueError: Invalid rounds"
        /\ ~connOpen[c]
        /\ slots = 0

(***************************************************************************)
(* C12: newline bytes after the Request are tolerated.  Whether the peer   *)
(* wrote none, one, or several (CR LF), the handler reads and discards     *)
(* exactly those bytes and no other, the session goes on to round 1, and   *)
(* the first 10-byte decision frame is received as the peer wrote it.      *)
(***************************************************************************)
RECURSIVE C12_StripNewlines(_)
\* b without the newline bytes (LF, CR) it starts with
C12_StripNewlines(b) ==
    IF b # <<>> /\ Head(b) \in {10, 13} THEN C12_StripNewlines(Tail(b)) ELSE b

C12_NewlineStep(c) ==
    (pc[c] = "newline" /\ pc'[c] # "newline") =>
        /\ inbuf'[c] = C12_StripNewlines(inbuf[c])
        /\ pc'[c] = "round"
        /\ r'[c] = 1
        /\ exc'[c] = "none"

\* the ten bytes the player turn receives are a frame as the peer wrote it
C12_FramesAligned ==
    \A c \in Conns :
        (pc[c] = "player" /\ Len(inbuf[c]) >= 10) =>
            Take(inbuf[c], 10) \in DecisionFrames

C12_NewlineTolerated ==
    /\ []C12_FramesAligned
    /\ [][\A c \in Conns : C12_NewlineStep(c)]_vars

(***************************************************************************)
(* C13: an error in one session touches no other session and not the       *)
(* broadcaster.  In every step by which a session ends on an error (the    *)
(* raise of a receive failure, timeout, send failure, malformed request or *)
(* invalid decision, then the close, then the release), every other        *)
(* session's deck, hands, position, counters, buffers and connection are   *)
(* unchanged, so are the listen queue and the broadcaster, and the         *)
(* capacity counter changes only in the release, by one unit.  The         *)
(* broadcaster can always take its next step and the acceptor can always   *)
(* take a waiting connection.                                              *)
(***************************************************************************)
\* all that belongs to the session of connection d
C13_Session(d) ==
    <<pc[d], connOpen[d], inbuf[d], sent[d], exc[d],
      num_rounds[d], r[d], wins[d], losses[d], ties[d], result[d],
      deck[d], player[d], dealer[d], last_dealer_card[d]>>

\* a step of c's handler on its way out with an error
C13_ErrorStep(c) ==
    /\ pc[c] \in HandlerPcs
    /\ exc[c] # "none" \/ exc'[c] # "none"
    /\ pc'[c] # pc[c]

C13_Frame(c) ==
    C13_ErrorStep(c) =>
        /\ \A d \in Conns \ {c} : C13_Session(d)' = C13_Session(d)
        /\ backlog' = backlog
        /\ offer_pc' = offer_pc
        /\ IF pc[c] = "release" THEN slots' = slots + 1 ELSE slots' = slots

C13_KeepRunning ==
    /\ ENABLED (O_Send \/ O_Sleep)
    /\ backlog # <<>> => ENABLED A_Accept

C13_Isolation ==
    /\ []C13_KeepRunning
    /\ [][\A c \in Conns : C13_Frame(c)]_vars

\* one session has been closed on an invalid decision and still holds its
\* unit, while the other is in its dealer's turn with its cards
C13_Witness ==
    \E c, d \in Conns :
        /\ pc[c] = "release"
        /\ exc[c] = "ValueError: Invalid decision value"
        /\ pc[d] = "dealer"
        /\ connOpen[d]
        /\ Len(player[d]) = 2
        /\ Cardinality(deck[d]) = 48
        /\ slots = 0

(***************************************************************************)
(* C14: client.py's run_session mirrors the server's round.  With client   *)
(* and server on a reliable connection, for every deal and every sequence  *)
(* of decisions: the client ends a round exactly where the server returns  *)
(* from it; the client never waits for a payload the server will not send, *)
(* and the server never waits for a decision the client will not send;     *)
(* and after each round, and at the end of the session, the client's wins, *)
(* losses and ties are the server's.                                       *)
(***************************************************************************)
C14_Counters(cl) == <<cl.wins, cl.losses, cl.ties>>

\* the server's counters once the round it has returned from is counted
C14_ServerCounted(c) ==
    <<wins[c] + (IF result[c] = RESULT_WIN THEN 1 ELSE 0),
      losses[c] + (IF result[c] = RESULT_LOSS THEN 1 ELSE 0),
      ties[c] + (IF result[c] = RESULT_TIE THEN 1 ELSE 0)>>

C14_InStep(c) ==
    LET cl == client[c]
        allTaken == cl.read = Len(sent[c])
    IN  pc[c] \in {"round", "player", "dealer", "return"} =>
            /\ cl.rounds = num_rounds[c]
            /\ cl.r \in {r[c], r[c] + 1}
            \* the client has ended the round: the server has returned from it,
            \* and with the result the client counted
            /\ cl.r = r[c] + 1 =>
                   /\ pc[c] = "return"
                   /\ C14_Counters(cl) = C14_ServerCounted(c)
            /\ cl.r = r[c] =>
                   /\ C14_Counters(cl) = <<wins[c], losses[c], ties[c]>>
                   \* the server has returned: the client has payloads left to
                   \* take, the last of which ends its round
                   /\ pc[c] = "return" => ~allTaken
                   \* between rounds: the client is about to take the next
                   \* deal, or is done when the server's loop is
                   /\ pc[c] = "round" =>
                          /\ cl.read = 0
                          /\ cl.pc = (IF r[c] > num_rounds[c] THEN "finished" ELSE "deal")
                   \* the client prompts: the server is in the player's turn
                   /\ cl.pc = "prompt" => (pc[c] = "player" /\ allTaken)
                   \* the client waits for a payload: the server is to send one
                   /\ (cl.pc \in {"deal", "hit", "reveal", "dealer"} /\ allTaken) =>
                          \/ pc[c] \in {"round", "dealer"}
                          \/ pc[c] = "player" /\ Len(inbuf[c]) >= 10
                   \* the server waits for a decision: the client is to send one
                   /\ (pc[c] = "player" /\ Len(inbuf[c]) < 10) =>
                          /\ inbuf[c] = <<>>
                          /\ cl.pc \in {"deal", "prompt", "hit"}
                          /\ cl.pc = "hit" =>
                                 /\ cl.read = Len(sent[c]) - 1
                                 /\ Payload(c, Len(sent[c]))[1] = RESULT_NOT_OVER

C14_AtEnd(c) ==
    LET cl == client[c]
    IN  /\ cl.pc = "finished" =>
               /\ cl.r = cl.rounds + 1
               /\ cl.wins + cl.losses + cl.ties = cl.rounds
               /\ pc[c] \in {"return", "round", "finally", "release", "done"}
        /\ pc[c] = "finally" =>
               /\ cl.pc = "finished"
               /\ C14_Counters(cl) = <<wins[c], losses[c], ties[c]>>
               /\ inbuf[c] = <<>>

C14_ClientMirrors == Reliable /\ \A c \in MirrorConns : C14_InStep(c) /\ C14_AtEnd(c)

\* a session of two rounds is over at both ends: a hit that bust, and a
\* stand the dealer bust on
C14_Witness ==
    \E c \in MirrorConns :
        /\ pc[c] = "finally"
        /\ client[c].pc = "finished"
        /\ client[c].rounds = 2
        /\ client[c].wins = 1 /\ wins[c] = 1
        /\ client[c].losses = 1 /\ losses[c] = 1

(***************************************************************************)
(* C15: round trip.  For every message type and every valid value x        *)
(* (Offer: a tcp_port and a name of at most 32 bytes; Request: num_rounds  *)
(* in 1..255 and a team name of at most 32 bytes; client Payload: "Hittt"  *)
(* or "Stand"; server Payload: result in 0..3, rank in 1..13, suit in      *)
(* 0..3), decode(encode(x)) = x.                                           *)
(***************************************************************************)
C15_RoundTrip ==
    codec.stage = "roundtrip" => codec.y = codec.x

(***************************************************************************)
(* C15, as it holds: the same, for the names that contain no NUL           *)
(* character.  The encoding is of the message's fixed size.  A name with a *)
(* NUL character comes back cut at its first NUL, the other field of the   *)
(* message as it was.                                                      *)
(***************************************************************************)
C15_HasNul(name) == \E i \in 1..Len(name) : name[i] = 0

\* the name as far as its first NUL
C15_UpToNul(name) ==
    IF C15_HasNul(name)
    THEN Take(name, (CHOOSE i \in 1..Len(name) :
                        name[i] = 0 /\ \A j \in 1..(i - 1) : name[j] # 0) - 1)
    ELSE name

C15_RoundTripNoNul ==
    codec.stage = "roundtrip" =>
        /\ Len(codec.bytes) = FrameSize(codec.kind)
        /\ IF codec.kind \in {"offer", "request"}
           THEN /\ Len(codec.x[2]) <= 32
                /\ ~C15_HasNul(codec.x[2]) => codec.y = codec.x
                /\ codec.y = <<codec.x[1], C15_UpToNul(codec.x[2])>>
           ELSE codec.y = codec.x

\* an Offer with a two-byte port and a name of exactly 32 bytes has gone
\* through pack_offer and unpack_offer and is back as it was
C15_Witness ==
    /\ codec.stage = "roundtrip"
    /\ codec.kind = "offer"
    /\ codec.x[1] = 13122
    /\ Len(codec.x[2]) = 32
    /\ ~C15_HasNul(codec.x[2])
    /\ codec.y = codec.x

(***************************************************************************)
(* C16: every decode function rejects with an error, and returns no field, *)
(* a buffer shorter than the message's fixed size (39, 38, 10, 9), or      *)
(* whose first four bytes are not the magic cookie, or whose type byte is  *)
(* not the message's tag; and it rejects no buffer of sufficient length    *)
(* with the right cookie and type, whatever the other fields hold and      *)
(* whatever follows.                                                       *)
(***************************************************************************)
\* 0xABCDCDBA, byte by byte
C16_Cookie == <<171, 205, 205, 186>>

C16_MustReject(kind, b) ==
    \/ Len(b) < FrameSize(kind)
    \/ \E i \in 1..4 : b[i] # C16_Cookie[i]
    \/ b[5] # TypeTag(kind)

C16_DecodeRejects ==
    codec.stage = "decoded" =>
        /\ C16_MustReject(codec.kind, codec.bytes) <=> codec.y = ValueError
        \* what is not rejected has the fields of the message
        /\ ~C16_MustReject(codec.kind, codec.bytes) =>
               CASE codec.kind = "payload_client" -> Len(codec.y) \in 2..5
                 [] codec.kind = "payload_server" -> Len(codec.y) = 3
                 [] OTHER -> Len(codec.y) = 2

\* a buffer of the Request's 38 bytes with the right cookie and the tag of a
\* Payload has been rejected by unpack_request
C16_Witness ==
    /\ codec.stage = "decoded"
    /\ codec.kind = "request"
    /\ Len(codec.bytes) = 38
    /\ Take(codec.bytes, 4) = C16_Cookie
    /\ codec.bytes[5] = TYPE_PAYLOAD
    /\ codec.y = ValueError

(***************************************************************************)
(* C17  Deck integrity: a fresh Deck yields, over 52 successive draws,     *)
(* exactly the 52 distinct (rank, suit) pairs with rank in 1..13 and suit  *)
(* in 0..3, with no repeats, whatever the shuffle; the 53rd draw fails     *)
(* with the deck-exhausted error and the deck is never refilled.           *)
(***************************************************************************)
C17_Set(s) == {s[i] : i \in 1..Len(s)}
C17_NoRepeats(s) == \A i, j \in 1..Len(s) : i # j => s[i] # s[j]

\* what has been drawn so far: distinct cards of a 52-card pack, and with
\* the cards left they are the whole pack; the draw fails only when 52
\* cards have been drawn
C17_Drawn ==
    /\ C17_NoRepeats(deckT.drawn)
    /\ \A i \in 1..Len(deckT.drawn) :
          /\ deckT.drawn[i][1] \in 1..13
          /\ deckT.drawn[i][2] \in 0..3
    /\ Len(deckT.drawn) <= 52
    /\ Len(deckT.drawn) = 52 =>
          /\ Cardinality(C17_Set(deckT.drawn)) = 52
          /\ C17_Set(deckT.drawn) = (1..13) \X (0..3)
          /\ deckT.cards = <<>>
    /\ deckT.err # "none" => Len(deckT.drawn) = 52

\* a draw gives one more card while fewer than 52 have been drawn and fails
\* at the 53rd; no card ever comes back into the deck
C17_DrawStep ==
    /\ Len(deckT.drawn) < 52 =>
          /\ Len(deckT'.drawn) = Len(deckT.drawn) + 1
          /\ deckT'.err = "none"
    /\ Len(deckT.drawn) = 52 =>
          /\ deckT'.err # "none"
          /\ deckT'.drawn = deckT.drawn
    /\ Len(deckT'.cards) <= Len(deckT.cards)
    /\ C17_Set(deckT'.cards) \subseteq C17_Set(deckT.cards)

C17_DeckIntegrity == []C17_Drawn /\ [][T_Draw => C17_DrawStep]_vars

\* 52 cards were drawn from a deck that was not in its original order, and
\* the 53rd draw has failed
C17_Witness ==
    /\ deckT.err # "none"
    /\ Len(deckT.drawn) = 52
    /\ deckT.cards = <<>>
    /\ deckT.drawn[1] = <<11, 3>>
    /\ deckT.drawn[2] = <<8, 3>>

(***************************************************************************)
(* C18  Scoring: for every hand, total equals the sum over its cards of a  *)
(* fixed value (rank 1 is always 11, ranks 2..10 are worth their rank,     *)
(* ranks 11..13 are worth 10), recomputed from the whole hand, and bust    *)
(* holds iff total > 21; so an Ace alone totals 11, Ace+King totals 21 and *)
(* is not bust, and 10+10+6 totals 26 and is bust.                         *)
(***************************************************************************)
\* the fixed value of a rank, as a table
C18_Value ==
    [rank \in 1..13 |->
        <<11, 2, 3, 4, 5, 6, 7, 8, 9, 10, 10, 10, 10>>[rank]]

\* the sum of the values of the first n cards of a hand
RECURSIVE C18_Sum(_, _)
C18_Sum(hand, n) ==
    IF n = 0 THEN 0 ELSE C18_Sum(hand, n - 1) + C18_Value[hand[n][1]]

C18_Scoring ==
    /\ handT.total = C18_Sum(handT.cards, Len(handT.cards))
    /\ handT.bust <=> handT.total > 21
    /\ handT.cards = << <<1, 0>> >> => handT.total = 11
    /\ handT.cards = << <<1, 0>>, <<13, 3>> >> =>
          handT.total = 21 /\ ~handT.bust
    /\ handT.cards = << <<10, 0>>, <<10, 1>>, <<6, 2>> >> =>
          handT.total = 26 /\ handT.bust

\* the hand 10 + 10 + 6 has been built and is bust
C18_Witness ==
    /\ handT.cards = << <<10, 0>>, <<10, 1>>, <<6, 2>> >>
    /\ handT.total = 26
    /\ handT.bust

(***************************************************************************)
(* C19  Every server-to-client payload carries exactly one card with rank  *)
(* in 1..13 and suit in 0..3 taken from the current round's deck, and in   *)
(* every round that completes the server sends exactly one payload whose   *)
(* result is not NOT_OVER (WIN, LOSS or TIE); that payload is the last one *)
(* of the round and its result is the round's outcome.                     *)
(***************************************************************************)
\* the payloads of the round whose result is not NOT_OVER
C19_Terminal(c) ==
    {i \in 1..Len(sent[c]) : Payload(c, i)[1] # RESULT_NOT_OVER}

\* a payload is one frame of 9 bytes that decodes to a result and one card
C19_OneCard(c, i) ==
    /\ Len(sent[c][i]) = 9
    /\ Payload(c, i) # ValueError
    /\ Len(Payload(c, i)) = 3
    /\ Payload(c, i)[1] \in {RESULT_NOT_OVER, RESULT_TIE, RESULT_LOSS, RESULT_WIN}
    /\ Payload(c, i)[2] \in 1..13
    /\ Payload(c, i)[3] \in 0..3

\* the card of a payload has left the round's deck and lies in a hand
C19_FromDeck(c, i) ==
    /\ CardOf(Payload(c, i)) \notin deck[c]
    /\ CardOf(Payload(c, i)) \in CardsIn(player[c]) \cup CardsIn(dealer[c])

C19_Payloads ==
    \A c \in Conns :
       /\ \A i \in 1..Len(sent[c]) : C19_OneCard(c, i)
       /\ c \in InRound => \A i \in 1..Len(sent[c]) : C19_FromDeck(c, i)
       /\ pc[c] \in {"player", "dealer"} => C19_Terminal(c) = {}
       /\ pc[c] = "return" =>
             /\ C19_Terminal(c) = {Len(sent[c])}
             /\ Payload(c, Len(sent[c]))[1] = result[c]
             /\ result[c] \in {RESULT_TIE, RESULT_LOSS, RESULT_WIN}
       /\ Cardinality(C19_Terminal(c)) <= 1

\* a round has completed with a WIN after the player hit and the dealer drew
C19_Witness ==
    \E c \in Conns :
       /\ pc[c] = "return"
       /\ result[c] = RESULT_WIN
       /\ Len(sent[c]) >= 6
       /\ Len(player[c]) = 3
       /\ Len(dealer[c]) = 3
       /\ Payload(c, Len(sent[c]))[1] = RESULT_WIN
       /\ C19_Terminal(c) = {Len(sent[c])}

(***************************************************************************)
(* C20  Every accepted session eventually ends and returns its capacity    *)
(* unit, whatever the client does: provided each blocking read eventually  *)
(* delivers bytes, reports the peer's close, or times out, a session       *)
(* cannot run forever (each round ends after finitely many decisions       *)
(* because repeated hits bust the player, and at most 255 rounds are       *)
(* played), and when it ends the connection is closed and the unit is      *)
(* released.                                                               *)
(***************************************************************************)
\* the handler's thread has ended
C20_Ended(c) == pc[c] = "done"

\* a running handler eventually ends, with its connection closed
C20_Ends ==
    \A c \in Conns : (pc[c] \in HandlerPcs) ~> (C20_Ended(c) /\ ~connOpen[c])

\* the step that ends a handler gives its unit back, the connection being
\* closed already
C20_EndStep ==
    \A c \in Conns :
       (~C20_Ended(c) /\ C20_Ended(c)') =>
          /\ slots' = slots + 1
          /\ ~connOpen[c]
          /\ ~connOpen'[c]

C20_Termination == C20_Ends /\ [][C20_EndStep]_vars

\* a session has played both its rounds and ended, its unit is free again
\* and went to the next connection
C20_Witness ==
    /\ C20_Ended(1)
    /\ ~connOpen[1]
    /\ pc[2] = "release"
    /\ slots = max_clients - 1

(***************************************************************************)
(* C24  A party whose hand total exceeds 21 never wins a round: a round's  *)
(* outcome is never WIN when the player's final hand total is above 21,    *)
(* and never LOSS when the dealer's final hand total is above 21 while the *)
(* player's is at most 21 (the first two cards included, such as two Aces  *)
(* totalling 22).                                                          *)
(***************************************************************************)
C24_BustedNeverWins ==
    \A c \in Conns :
        pc[c] = "return" =>
            /\ ~(result[c] = RESULT_WIN /\ total(player[c]) > 21)
            /\ ~(/\ result[c] = RESULT_LOSS
                 /\ total(dealer[c]) > 21
                 /\ total(player[c]) <= 21)

(***************************************************************************)
(* C21  Shutdown: once the process-wide shutdown signal is set, the        *)
(* acceptor starts no new Session Handler, the accept loop is unblocked by *)
(* the closing of the listening socket and terminates cleanly (the error   *)
(* is not treated as a fault), the broadcaster stops sending offers, and   *)
(* sessions already in flight are not forcibly cancelled but run on to     *)
(* their own end.                                                          *)
(***************************************************************************)
\* with the signal set, no Session Handler starts
C21_NoNewHandler ==
    proc.stop =>
        \A c \in Conns : pc[c] \notin HandlerPcs => pc'[c] \notin HandlerPcs

\* the accept loop ends only once the signal is set, and a step of the
\* acceptor blocked on the closed socket ends the loop
C21_AcceptorEnds ==
    /\ (proc.acceptor # "ended" /\ proc'.acceptor = "ended") => proc.stop
    /\ (/\ proc.acceptor = "accept"
        /\ proc.tcp_sock = "closed"
        /\ proc'.acceptor # "accept") => proc'.acceptor \in {"ended", "killed"}

\* the broadcaster's loop ends only once the signal is set, and with the
\* signal set no more offers go out than those of the pass under way
C21_BroadcasterStops ==
    /\ offer_pc = "ended" => proc.stop
    /\ proc.late <= 1

\* a running Session Handler stops running only by reaching its own end
C21_InFlightRunOn ==
    \A c \in Conns :
        pc[c] \in HandlerPcs => pc'[c] \in HandlerPcs \cup {"done"}

C21_Shutdown ==
    /\ []C21_BroadcasterStops
    /\ [][C21_NoNewHandler /\ C21_AcceptorEnds /\ C21_InFlightRunOn]_vars

\* the parts of C21, each on its own
C21_NoNewHandlerAlways == [][C21_NoNewHandler]_vars
C21_AcceptorEndsAlways == [][C21_AcceptorEnds]_vars
C21_InFlightRunOnAlways == [][C21_InFlightRunOn]_vars

(***************************************************************************)
(* C22  A client discovery attempt always ends within its bounded timeout: *)
(* listen_for_offer returns either the first valid Offer received or, on   *)
(* timeout, a failure of the attempt (not of the process), also when       *)
(* datagrams that are not valid Offers (wrong cookie, wrong type, too      *)
(* short) keep arriving on the well-known port; such datagrams are ignored *)
(* and never returned as an offer.                                         *)
(***************************************************************************)
\* a datagram is a valid Offer, byte by byte
C22_ValidOffer(data) ==
    /\ Len(data) >= 39
    /\ Take(data, 4) = <<171, 205, 205, 186>>
    /\ data[5] = 2

\* while the attempt goes on, no more than the timeout has passed
C22_Bounded ==
    listener.pc = "recvfrom" => listener.total <= timeout_sec

\* what is returned is None, after the timeout, or the fields of a valid
\* Offer, the first one received
C22_Returned ==
    listener.pc = "returned" =>
        \/ listener.ret = None /\ listener.waited = timeout_sec
        \/ /\ listener.ret # None
           /\ C22_ValidOffer(listener.data)
           /\ listener.ret = unpack_offer(listener.data)
           /\ listener.ret # ValueError

\* a datagram that is no valid Offer ends nothing
C22_Ignored ==
    (listener.pc = "recvfrom" /\ listener.data # <<>>) =>
        ~C22_ValidOffer(listener.data)

C22_Discovery == C22_Bounded /\ C22_Returned /\ C22_Ignored

(***************************************************************************)
(* C23  Deck exhaustion never occurs in a round: for every shuffle of the  *)
(* fresh 52-card deck and every sequence of client decisions, no draw in   *)
(* the round (initial deal, player hits, dealer draws) is attempted on an  *)
(* empty deck, because the player hand and the dealer hand each stop       *)
(* growing before the deck can run out.                                    *)
(***************************************************************************)
C23_DeckError == "RuntimeError: Deck is empty"

\* in a round the hands stay short (a hand that can still grow has cards of
\* at least 2 each and a total of at most 21, the dealer's of at most 16),
\* the deck holds the rest of the 52 cards and is not empty, and no draw
\* has failed
C23_NoExhaustion ==
    \A c \in Conns :
       /\ exc[c] # C23_DeckError
       /\ c \in InRound =>
             /\ Len(player[c]) <= 11
             /\ Len(dealer[c]) <= 9
             /\ Cardinality(deck[c]) = 52 - Len(player[c]) - Len(dealer[c])
             /\ deck[c] # {}

\* the longest hand of the explored shuffles: the player has hit until the
\* bust, on the eighth card
C23_Witness ==
    \E c \in Conns :
       /\ pc[c] = "return"
       /\ Len(player[c]) = 8
       /\ total(player[c]) > 21
       /\ result[c] = RESULT_LOSS
       /\ Cardinality(deck[c]) = 42

====
